---- MODULE Spec2Model ----
(***************************************************************************)
(* Model of backend/server.py: a FastAPI application over five MongoDB     *)
(* collections (users, leads, courses, lead_status, audit_logs).           *)
(*                                                                         *)
(* A request is a coroutine; the event loop may switch to another request  *)
(* at every await, and every await of a handler is a database operation.   *)
(* Each database operation is one atomic step.  The first step of a        *)
(* request runs the get_current_user dependency, the handler's role check  *)
(* and the handler's first database operation; every later database        *)
(* operation of the handler is a step of its own, so two requests in       *)
(* flight interleave between a check and the write that follows it.        *)
(* Handlers that only read are one step.                                   *)
(*                                                                         *)
(* Documents are records; a collection is the sequence of its documents    *)
(* in insertion order.  Strings with diacritics are written in ASCII.      *)
(* Every request to a protected route carries a bearer credential.         *)
(***************************************************************************)
EXTENDS Integers, Sequences, FiniteSets, TLC

VARIABLES
    users,        \* db.users
    leads,        \* db.leads
    courses,      \* db.courses
    lead_status,  \* db.lead_status
    audit_logs,   \* db.audit_logs
    now,          \* the wall clock read by datetime.now(timezone.utc)
    uuid,         \* number of uuid4 values drawn so far
    started,      \* the startup event has run
    req,          \* the requests in flight, one slot per client
    last,         \* the request that completed last, with its response
    nreq,         \* number of requests received so far
    faults        \* number of database writes that have failed so far

vars == <<users, leads, courses, lead_status, audit_logs, now, uuid, started, req, last, nreq, faults>>
store == <<users, leads, courses, lead_status, audit_logs>>

(***************************************************************************)
(* Bounds of the model.                                                    *)
(***************************************************************************)
\* requests received in one behaviour
MaxReqs == 2
\* ticks the clock advances in one behaviour
MaxClock == 1
\* inserts into audit_logs that fail in one behaviour
MaxFaults == 1

Clients == {"c1", "c2"}

(***************************************************************************)
(* Python values.                                                          *)
(***************************************************************************)
None == "None"

\* dict.get(k, default)
Get(d, k, default) == IF k \in DOMAIN d THEN d[k] ELSE default

\* {k: v for k, v in d.items() if k in ks}
Restrict(d, ks) == [k \in DOMAIN d \cap ks |-> d[k]]

\* {k: v for k, v in d.items() if k not in ks}; a Mongo projection {k: 0}
Without(d, ks) == [k \in DOMAIN d \ ks |-> d[k]]

\* dict.update / Mongo {"$set": upd} on one document
SetFields(d, upd) == [k \in DOMAIN d \cup DOMAIN upd |-> IF k \in DOMAIN upd THEN upd[k] ELSE d[k]]

\* the position of the first document of coll that has d[k] = v, or 0
FirstIndex(coll, k, v) ==
    LET hits == {i \in 1..Len(coll) : k \in DOMAIN coll[i] /\ coll[i][k] = v}
    IN  IF hits = {} THEN 0 ELSE CHOOSE i \in hits : \A j \in hits : i <= j

\* collection.find_one({k: v}): the first matching document, or None
find_one(coll, k, v) == IF FirstIndex(coll, k, v) = 0 THEN None ELSE coll[FirstIndex(coll, k, v)]

\* collection.update_one({k: v}, {"$set": upd})
update_one(coll, k, v, upd) ==
    IF FirstIndex(coll, k, v) = 0 THEN coll
    ELSE [coll EXCEPT ![FirstIndex(coll, k, v)] = SetFields(@, upd)]

\* collection.insert_one(doc)
insert_one(coll, doc) == Append(coll, doc)

\* str(uuid.uuid4()): the n-th value drawn; distinct draws give distinct strings
Uuid4(n) == ToString(n)

(***************************************************************************)
(* Time.  One tick of the clock is the lifetime of a token, eight hours.   *)
(* An ISO timestamp is the pair <<month, offset into the month>>; months   *)
(* are thirty days long.                                                   *)
(***************************************************************************)
ACCESS_TOKEN_EXPIRE_MINUTES == 480
TickMinutes == ACCESS_TOKEN_EXPIRE_MINUTES
TicksPerDay == (24 * 60) \div TickMinutes
DaysPerMonth == 30
TicksPerMonth == DaysPerMonth * TicksPerDay

\* timedelta(days=n), timedelta(minutes=n)
Days(n) == n * TicksPerDay
Minutes(n) == n \div TickMinutes

\* datetime.isoformat(): "YYYY-MM" followed by the rest of the timestamp
isoformat(t) == <<t \div TicksPerMonth, t % TicksPerMonth>>

\* datetime.fromisoformat(s)
fromisoformat(s) == s[1] * TicksPerMonth + s[2]

\* the clock at the start of a behaviour
StartClock == 2 * TicksPerMonth + Days(12)

(***************************************************************************)
(* Passwords and tokens.                                                   *)
(***************************************************************************)
\* bcrypt.hashpw(password, bcrypt.gensalt()): a well-formed bcrypt hash of password
hash_password(password) == [fmt |-> "bcrypt", pw |-> password]

\* a string a client wrote where a hash is expected
RawString(s) == [fmt |-> "raw", pw |-> s]

\* bcrypt.checkpw raises ValueError("Invalid salt") on a hash that is no bcrypt hash
verify_password_raises(hashed_password) == hashed_password.fmt # "bcrypt"

\* bcrypt.checkpw(plain, hashed) on a well-formed hash
verify_password(plain_password, hashed_password) == hashed_password.pw = plain_password

\* jwt.encode(data + {"exp": now + 8h}, SECRET_KEY)
create_access_token(data, t) ==
    [sig |-> "ok", claims |-> SetFields(data, [exp |-> t + Minutes(ACCESS_TOKEN_EXPIRE_MINUTES)])]

\* jwt.decode(token, SECRET_KEY): the payload, or the exception raised
jwt_decode(token, t) ==
    IF token.sig # "ok" THEN [raise |-> "DecodeError"]
    ELSE IF token.claims.exp <= t THEN [raise |-> "ExpiredSignatureError"]
    ELSE [raise |-> None, payload |-> token.claims]

(***************************************************************************)
(* Responses.                                                              *)
(***************************************************************************)
\* a returned value: status 200
Ok(body) == [status |-> 200, detail |-> "", body |-> body]

\* raise HTTPException(status_code, detail)
HTTPException(status_code, detail) == [status |-> status_code, detail |-> detail, body |-> None]

\* an exception no handler catches: the framework answers 500
InternalServerError(exc) == [status |-> 500, detail |-> exc, body |-> None]

(***************************************************************************)
(* get_current_user.                                                       *)
(***************************************************************************)
\* the names the module imported as jwt defines: the module whose encode takes
\* algorithm=, whose decode takes algorithms= and which has ExpiredSignatureError
\* at top level is PyJWT, and PyJWT has no name JWTError
JwtModuleNames ==
    {"encode", "decode", "PyJWTError", "InvalidTokenError", "DecodeError",
     "InvalidSignatureError", "ExpiredSignatureError", "InvalidAudienceError",
     "InvalidIssuerError", "InvalidIssuedAtError", "ImmatureSignatureError",
     "InvalidKeyError", "InvalidAlgorithmError", "MissingRequiredClaimError"}

\* a try block that refuses a user whose ativo is false
get_current_user_try_active(token, usrs, t) ==
    LET d == jwt_decode(token, t)
    IN  IF d.raise # None THEN [raise |-> d.raise]
        ELSE LET user_id == Get(d.payload, "sub", None)
             IN  IF user_id = None
                 THEN [raise |-> "HTTPException", exc |-> HTTPException(401, "Token invalido")]
                 ELSE IF FirstIndex(usrs, "id", user_id) = 0
                 THEN [raise |-> "HTTPException", exc |-> HTTPException(401, "Usuario nao encontrado")]
                 ELSE IF ~Get(find_one(usrs, "id", user_id), "ativo", TRUE)
                 THEN [raise |-> "HTTPException", exc |-> HTTPException(401, "Usuario desativado")]
                 ELSE [raise |-> None, user |-> find_one(usrs, "id", user_id)]

\* the body of the try block: what it returns or raises
get_current_user_try(token, usrs, t) ==
    LET d == jwt_decode(token, t)
    IN  IF d.raise # None THEN [raise |-> d.raise]
        ELSE LET user_id == Get(d.payload, "sub", None)
             IN  IF user_id = None
                 THEN [raise |-> "HTTPException", exc |-> HTTPException(401, "Token invalido")]
                 ELSE IF FirstIndex(usrs, "id", user_id) = 0
                 THEN [raise |-> "HTTPException", exc |-> HTTPException(401, "Usuario nao encontrado")]
                 ELSE [raise |-> None, user |-> find_one(usrs, "id", user_id)]

\* the except clauses, tried in order; the expression of a clause is evaluated
\* when an exception reaches the clause
get_current_user(token, usrs, t) ==
    LET r == get_current_user_try(token, usrs, t)
    IN  IF r.raise = None THEN [ok |-> TRUE, user |-> r.user]
        ELSE IF r.raise = "ExpiredSignatureError"
        THEN [ok |-> FALSE, resp |-> HTTPException(401, "Token expirado")]
        ELSE IF "JWTError" \notin JwtModuleNames
        THEN [ok |-> FALSE, resp |-> InternalServerError("AttributeError")]
        ELSE IF r.raise \in {"DecodeError", "InvalidSignatureError"}
        THEN [ok |-> FALSE, resp |-> HTTPException(401, "Token invalido")]
        ELSE [ok |-> FALSE, resp |-> r.exc]

(***************************************************************************)
(* log_audit builds this document and inserts it into audit_logs.          *)
(***************************************************************************)
\* an audit document that names the acting user where the entity belongs
AuditLogOfActor(n, usuario_id, usuario_nome, acao, entidade, entidade_id, detalhes, t) ==
    [id |-> Uuid4(n), usuario_id |-> usuario_id, usuario_nome |-> usuario_nome,
     acao |-> acao, entidade |-> entidade, entidade_id |-> usuario_id,
     detalhes |-> detalhes, criado_em |-> isoformat(t)]

AuditLog(n, usuario_id, usuario_nome, acao, entidade, entidade_id, detalhes, t) ==
    [id |-> Uuid4(n), usuario_id |-> usuario_id, usuario_nome |-> usuario_nome,
     acao |-> acao, entidade |-> entidade, entidade_id |-> entidade_id,
     detalhes |-> detalhes, criado_em |-> isoformat(t)]

(***************************************************************************)
(* The startup event: seeds every collection that is empty.                *)
(***************************************************************************)
\* email, nome, tipo, senha
default_users_data ==
    << <<"vendedor@lead.com.br", "Vendedor Demo", "vendedor", "vendedor123">>,
       <<"coordenador@lead.com.br", "Coordenador Demo", "coordenador", "coordenador123">>,
       <<"adm@lead.com.br", "DANIEL Souza", "administrador", "adm123">> >>

default_users(n, t) ==
    [i \in 1..Len(default_users_data) |->
        [id |-> Uuid4(n + i), email |-> default_users_data[i][1], nome |-> default_users_data[i][2],
         tipo |-> default_users_data[i][3], senha_hash |-> hash_password(default_users_data[i][4]),
         ativo |-> TRUE, criado_em |-> isoformat(t)]]

default_course_names ==
    <<"Enfermagem", "Farmacia", "Medicina Veterinaria", "Odontologia", "Psicologia",
      "Administracao - Presencial", "Administracao - Semipresencial", "Licenciatura em Historia",
      "Licenciatura em Letras - Lingua Inglesa", "Licenciatura em Letras - Lingua Portuguesa",
      "Licenciatura em Matematica", "Pedagogia", "Ciencia de Computacao",
      "Engenharia da Computacao", "Engenharia Eletrica", "Engenharia Mecanica",
      "Sistema da Informacao", "Direito">>

default_courses(n) ==
    [i \in 1..Len(default_course_names) |->
        [id |-> Uuid4(n + i), nome |-> default_course_names[i], ativo |-> TRUE]]

\* nome, cor
default_statuses_data ==
    << <<"Novo", "#3B82F6">>, <<"Em negociacao", "#F97316">>,
       <<"Matriculado", "#10B981">>, <<"Nao tem interesse", "#EF4444">> >>

default_statuses(n) ==
    [i \in 1..Len(default_statuses_data) |->
        [id |-> Uuid4(n + i), nome |-> default_statuses_data[i][1], cor |-> default_statuses_data[i][2]]]

\* nome_completo, telefone, curso, status, days since criado_em, days since atualizado_em
sample_leads_data ==
    << <<"Maria Silva Santos", "(84) 98765-4321", "Enfermagem", "Novo", 5, 5>>,
       <<"Joao Pedro Costa", "(84) 99876-5432", "Engenharia da Computacao", "Em negociacao", 10, 2>>,
       <<"Ana Carolina Oliveira", "(84) 98123-4567", "Administracao - Presencial", "Matriculado", 20, 1>>,
       <<"Carlos Eduardo Ferreira", "(84) 99234-5678", "Direito", "Em negociacao", 3, 3>>,
       <<"Beatriz Almeida Lima", "(84) 98345-6789", "Psicologia", "Novo", 7, 7>>,
       <<"Lucas Henrique Souza", "(84) 99456-7890", "Engenharia Eletrica", "Matriculado", 15, 8>>,
       <<"Fernanda Rodrigues Martins", "(84) 98567-8901", "Farmacia", "Em negociacao", 12, 4>>,
       <<"Rafael Gomes Pereira", "(84) 99678-9012", "Ciencia de Computacao", "Novo", 1, 1>>,
       <<"Juliana Mendes Rocha", "(84) 98789-0123", "Pedagogia", "Matriculado", 25, 18>>,
       <<"Gabriel Santos Barbosa", "(84) 99890-1234", "Odontologia", "Nao tem interesse", 30, 28>>,
       <<"Camila Freitas Castro", "(84) 98901-2345", "Medicina Veterinaria", "Em negociacao", 8, 6>>,
       <<"Thiago Ribeiro Lopes", "(84) 99012-3456", "Licenciatura em Matematica", "Novo", 0, 0>> >>

\* sample leads that carry no owner
sample_leads_detached(n, vendedor, t) ==
    [i \in 1..Len(sample_leads_data) |->
        [id |-> Uuid4(n + i), nome_completo |-> sample_leads_data[i][1],
         telefone |-> sample_leads_data[i][2], curso |-> sample_leads_data[i][3],
         status |-> sample_leads_data[i][4],
         vendedor_id |-> None, vendedor_nome |-> None,
         criado_em |-> isoformat(t - Days(sample_leads_data[i][5])),
         atualizado_em |-> isoformat(t - Days(sample_leads_data[i][6]))]]

sample_leads(n, vendedor, t) ==
    [i \in 1..Len(sample_leads_data) |->
        [id |-> Uuid4(n + i), nome_completo |-> sample_leads_data[i][1],
         telefone |-> sample_leads_data[i][2], curso |-> sample_leads_data[i][3],
         status |-> sample_leads_data[i][4],
         vendedor_id |-> vendedor.id, vendedor_nome |-> vendedor.nome,
         criado_em |-> isoformat(t - Days(sample_leads_data[i][5])),
         atualizado_em |-> isoformat(t - Days(sample_leads_data[i][6]))]]

Idle == [pc |-> "idle"]
NoRequest == [op |-> "none"]

startup_db ==
    /\ \A c \in Clients : req[c] = Idle
    /\ LET seed_users == Len(users) = 0
           users1 == IF seed_users THEN default_users(uuid, now) ELSE users
           n1 == IF seed_users THEN uuid + Len(default_users_data) ELSE uuid
           seed_courses == Len(courses) = 0
           n2 == IF seed_courses THEN n1 + Len(default_course_names) ELSE n1
           seed_statuses == Len(lead_status) = 0
           n3 == IF seed_statuses THEN n2 + Len(default_statuses_data) ELSE n2
           seed_leads == Len(leads) = 0 /\ FirstIndex(users1, "tipo", "vendedor") # 0
       IN  /\ users' = users1
           /\ courses' = IF seed_courses THEN default_courses(n1) ELSE courses
           /\ lead_status' = IF seed_statuses THEN default_statuses(n2) ELSE lead_status
           /\ leads' = IF seed_leads
                       THEN sample_leads(n3, find_one(users1, "tipo", "vendedor"), now)
                       ELSE leads
           /\ uuid' = IF seed_leads THEN n3 + Len(sample_leads_data) ELSE n3
    /\ started' = TRUE
    /\ UNCHANGED <<audit_logs, now, req, last, nreq, faults>>

\* the wall clock advances
Tick ==
    /\ now < StartClock + MaxClock
    /\ now' = now + 1
    /\ UNCHANGED <<users, leads, courses, lead_status, audit_logs, uuid, started, req, last, nreq, faults>>

Init ==
    /\ users = <<>>
    /\ leads = <<>>
    /\ courses = <<>>
    /\ lead_status = <<>>
    /\ audit_logs = <<>>
    /\ now = StartClock
    /\ uuid = 0
    /\ started = FALSE
    /\ req = [c \in Clients |-> Idle]
    /\ last = NoRequest
    /\ nreq = 0
    /\ faults = 0

(***************************************************************************)
(* Requests.  A request in flight holds its operation, its credential, its *)
(* arguments, the user get_current_user resolved (cu), the handler's local *)
(* variables (loc), and two history fields: wrote, once the handler's      *)
(* write is in the store, and logs, the ids of the audit entries it wrote. *)
(***************************************************************************)
\* a request that carries no credential, and a request for which no user was resolved
NoCredentials == [sig |-> None]
NoUser == [id |-> None]

Request(op, token, arg, cu) ==
    [pc |-> "begin", op |-> op, token |-> token, arg |-> arg, cu |-> cu,
     loc |-> <<>>, wrote |-> FALSE, logs |-> {}]

\* a request can be received
CanBegin(c) == started /\ req[c] = Idle /\ nreq < MaxReqs

\* the request of client c ends with response resp
Reply(c, r, resp) ==
    /\ last' = [op |-> r.op, token |-> r.token, arg |-> r.arg, cu |-> r.cu,
                resp |-> resp, wrote |-> r.wrote, logs |-> r.logs]
    /\ req' = [req EXCEPT ![c] = Idle]

\* the request of client c is suspended at its next await
Continue(c, r) ==
    /\ req' = [req EXCEPT ![c] = r]
    /\ UNCHANGED last

\* cursor.to_list(n)
to_list(seq, n) == IF Len(seq) <= n THEN seq ELSE SubSeq(seq, 1, n)

\* the documents of seq at the positions in I, in the order of seq
At(seq, I) ==
    [k \in 1..Cardinality(I) |-> seq[CHOOSE i \in I : Cardinality({j \in I : j <= i}) = k]]

\* the subsequence of the documents that satisfy Test
Filter(seq, Test(_)) == At(seq, {i \in 1..Len(seq) : Test(seq[i])})

\* the sequence of f(document)
Map(seq, f(_)) == [i \in 1..Len(seq) |-> f(seq[i])]

\* `if isinstance(d.get(k), str): d[k] = datetime.fromisoformat(d[k])` for k in ks
ParseDates(d, ks) == [k \in DOMAIN d |-> IF k \in ks THEN fromisoformat(d[k]) ELSE d[k]]

\* await log_audit(...) as a step of the request r of client c: the insert into
\* audit_logs either succeeds, and the handler goes on with After, or raises, and
\* nothing catches the exception
LogAudit(c, r, acao, entidade, entidade_id, detalhes, After(_)) ==
    LET doc == AuditLog(uuid + 1, r.cu.id, r.cu.nome, acao, entidade, entidade_id, detalhes, now)
    IN  /\ uuid' = uuid + 1
        /\ \/ /\ audit_logs' = insert_one(audit_logs, doc)
              /\ After([r EXCEPT !.logs = @ \cup {doc.id}])
              /\ UNCHANGED faults
           \/ /\ faults < MaxFaults
              /\ faults' = faults + 1
              /\ audit_logs' = audit_logs
              /\ Reply(c, r, InternalServerError("PyMongoError"))

(***************************************************************************)
(* POST /leads                                                             *)
(***************************************************************************)
LeadBaseFields == {"nome_completo", "telefone", "curso"}

\* a LeadCreate that keeps every field of the body
LeadCreateKeepsAll(body) == body

\* LeadCreate(**body).model_dump(): pydantic ignores the fields the model lacks
LeadCreate(body) == Restrict(body, LeadBaseFields)

\* Lead(**lead_data, vendedor_id=..., vendedor_nome=...)
Lead(n, lead_data, vendedor_id, vendedor_nome, t) ==
    SetFields([id |-> Uuid4(n), status |-> "Novo", vendedor_id |-> vendedor_id,
               vendedor_nome |-> vendedor_nome, criado_em |-> t, atualizado_em |-> t],
              lead_data)

\* model_dump() with both dates turned into ISO strings
LeadDoc(lead) ==
    [lead EXCEPT !.criado_em = isoformat(@), !.atualizado_em = isoformat(@)]

create_lead_allowed(current_user) == current_user.tipo = "vendedor"

\* a create_lead that inserts the lead before it looks at the caller's role
create_lead_insert_first(c, token, body) ==
    /\ CanBegin(c)
    /\ nreq' = nreq + 1
    /\ LET a == get_current_user(token, users, now)
           r == Request("create_lead", token, body, IF a.ok THEN a.user ELSE NoUser)
       IN  IF ~a.ok
           THEN Reply(c, r, a.resp) /\ UNCHANGED <<leads, uuid>>
           ELSE LET lead == Lead(uuid + 1, LeadCreate(body), a.user.id, a.user.nome, now)
                IN  /\ uuid' = uuid + 1
                    /\ leads' = insert_one(leads, LeadDoc(lead))
                    /\ IF ~create_lead_allowed(a.user)
                       THEN Reply(c, r, HTTPException(403, "Apenas vendedores podem criar leads"))
                       ELSE Continue(c, [r EXCEPT !.pc = "audit", !.loc = [lead |-> lead],
                                                  !.wrote = TRUE])
    /\ UNCHANGED <<users, courses, lead_status, audit_logs, now, started, faults>>

create_lead(c, token, body) ==
    /\ CanBegin(c)
    /\ nreq' = nreq + 1
    /\ LET a == get_current_user(token, users, now)
           r == Request("create_lead", token, body, IF a.ok THEN a.user ELSE NoUser)
       IN  IF ~a.ok
           THEN Reply(c, r, a.resp) /\ UNCHANGED <<leads, uuid>>
           ELSE IF ~create_lead_allowed(a.user)
           THEN /\ Reply(c, r, HTTPException(403, "Apenas vendedores podem criar leads"))
                /\ UNCHANGED <<leads, uuid>>
           ELSE LET lead == Lead(uuid + 1, LeadCreate(body), a.user.id, a.user.nome, now)
                IN  /\ uuid' = uuid + 1
                    /\ leads' = insert_one(leads, LeadDoc(lead))
                    /\ Continue(c, [r EXCEPT !.pc = "audit", !.loc = [lead |-> lead],
                                             !.wrote = TRUE])
    /\ UNCHANGED <<users, courses, lead_status, audit_logs, now, started, faults>>

create_lead_return(c, r) == Reply(c, r, Ok(r.loc.lead))

create_lead_log_audit(c) ==
    /\ req[c].pc = "audit" /\ req[c].op = "create_lead"
    /\ LET After(r) == create_lead_return(c, r)
       IN  LogAudit(c, req[c], "CREATE", "lead", req[c].loc.lead.id,
                    <<"Lead criado: ", req[c].loc.lead.nome_completo>>, After)
    /\ UNCHANGED <<users, leads, courses, lead_status, now, started, nreq>>

(***************************************************************************)
(* PATCH /leads/{lead_id}                                                  *)
(***************************************************************************)
LeadUpdateFields == {"status", "nome_completo", "telefone", "curso"}

\* a LeadUpdate that reads only status from the body
LeadUpdateStatusOnly(body) ==
    [k \in LeadUpdateFields |-> IF k = "status" THEN Get(body, k, None) ELSE None]

\* LeadUpdate(**body).model_dump(): every field of the model, None when absent
LeadUpdate(body) == [k \in LeadUpdateFields |-> Get(body, k, None)]

\* {k: v for k, v in ... if v}: a filter on truthiness, which also drops ""
OnlyTruthy(d) == Restrict(d, {k \in DOMAIN d : d[k] # None /\ d[k] # ""})

\* {k: v for k, v in lead_update.model_dump().items() if v is not None}
NotNone(d) == Restrict(d, {k \in DOMAIN d : d[k] # None})

leads_write_allowed(current_user) == current_user.tipo \in {"coordenador", "administrador"}

update_lead(c, token, lead_id, body) ==
    /\ CanBegin(c)
    /\ nreq' = nreq + 1
    /\ LET a == get_current_user(token, users, now)
           r == Request("update_lead", token, [lead_id |-> lead_id, body |-> body],
                        IF a.ok THEN a.user ELSE NoUser)
       IN  IF ~a.ok
           THEN Reply(c, r, a.resp)
           ELSE IF ~leads_write_allowed(a.user)
           THEN Reply(c, r, HTTPException(403, "Acesso negado"))
           ELSE IF FirstIndex(leads, "id", lead_id) = 0
           THEN Reply(c, r, HTTPException(404, "Lead nao encontrado"))
           ELSE Continue(c, [r EXCEPT !.pc = "update",
                    !.loc = [update_data |-> SetFields(NotNone(LeadUpdate(body)),
                                                       [atualizado_em |-> isoformat(now)])]])
    /\ UNCHANGED <<users, leads, courses, lead_status, audit_logs, now, uuid, started, faults>>

update_lead_update_one(c) ==
    /\ req[c].pc = "update" /\ req[c].op = "update_lead"
    /\ leads' = update_one(leads, "id", req[c].arg.lead_id, req[c].loc.update_data)
    /\ Continue(c, [req[c] EXCEPT !.pc = "audit", !.wrote = TRUE])
    /\ UNCHANGED <<users, courses, lead_status, audit_logs, now, uuid, started, nreq, faults>>

update_lead_log_audit(c) ==
    /\ req[c].pc = "audit" /\ req[c].op = "update_lead"
    /\ LET After(r) == Continue(c, [r EXCEPT !.pc = "find"])
       IN  LogAudit(c, req[c], "UPDATE", "lead", req[c].arg.lead_id, "Lead atualizado", After)
    /\ UNCHANGED <<users, leads, courses, lead_status, now, started, nreq>>

update_lead_find_one(c) ==
    /\ req[c].pc = "find" /\ req[c].op = "update_lead"
    /\ IF FirstIndex(leads, "id", req[c].arg.lead_id) = 0
       THEN Reply(c, req[c], InternalServerError("AttributeError"))
       ELSE Reply(c, req[c], Ok(ParseDates(find_one(leads, "id", req[c].arg.lead_id),
                                           {"criado_em", "atualizado_em"})))
    /\ UNCHANGED <<users, leads, courses, lead_status, audit_logs, now, uuid, started, nreq, faults>>

(***************************************************************************)
(* POST /auth/login, GET /auth/me                                          *)
(***************************************************************************)
login(c, email, senha) ==
    /\ CanBegin(c)
    /\ nreq' = nreq + 1
    /\ LET r == Request("login", NoCredentials, [email |-> email, senha |-> senha], NoUser)
           i == FirstIndex(users, "email", email)
           user == users[i]
       IN  IF i = 0
           THEN Reply(c, r, HTTPException(401, "Email ou senha incorretos"))
           ELSE IF verify_password_raises(user.senha_hash)
           THEN Reply(c, r, InternalServerError("ValueError"))
           ELSE IF ~verify_password(senha, user.senha_hash)
           THEN Reply(c, r, HTTPException(401, "Email ou senha incorretos"))
           ELSE IF ~Get(user, "ativo", TRUE)
           THEN Reply(c, r, HTTPException(403, "Usuario desativado"))
           ELSE Reply(c, r, Ok([access_token |->
                                   create_access_token([sub |-> user.id, tipo |-> user.tipo], now),
                                token_type |-> "bearer",
                                user |-> Without(user, {"senha_hash"})]))
    /\ UNCHANGED <<users, leads, courses, lead_status, audit_logs, now, uuid, started, faults>>

\* what get_me returns for the resolved user
get_me_body(current_user) == Without(current_user, {"senha_hash"})

get_me(c, token) ==
    /\ CanBegin(c)
    /\ nreq' = nreq + 1
    /\ LET a == get_current_user(token, users, now)
           r == Request("get_me", token, None, IF a.ok THEN a.user ELSE NoUser)
       IN  IF ~a.ok
           THEN Reply(c, r, a.resp)
           ELSE Reply(c, r, Ok(get_me_body(a.user)))
    /\ UNCHANGED <<users, leads, courses, lead_status, audit_logs, now, uuid, started, faults>>

(***************************************************************************)
(* GET /users, POST /users, PATCH /users/{user_id}                         *)
(***************************************************************************)
UserFields == {"email", "nome", "tipo", "id", "ativo", "criado_em"}

\* a check that lets every role but the seller through
not_seller(current_user) == current_user.tipo # "vendedor"

admin_only(current_user) == current_user.tipo = "administrador"

\* db.users.find({}, {"_id": 0, "senha_hash": 0})
users_without_hash(usrs) == [i \in 1..Len(usrs) |-> Without(usrs[i], {"senha_hash"})]

\* response_model=List[User]: the fields of User, criado_em parsed
UserOut(d) == ParseDates(Restrict(d, UserFields), {"criado_em"})

get_users(c, token) ==
    /\ CanBegin(c)
    /\ nreq' = nreq + 1
    /\ LET a == get_current_user(token, users, now)
           r == Request("get_users", token, None, IF a.ok THEN a.user ELSE NoUser)
       IN  IF ~a.ok
           THEN Reply(c, r, a.resp)
           ELSE IF ~admin_only(a.user)
           THEN Reply(c, r, HTTPException(403, "Acesso negado"))
           ELSE Reply(c, r, Ok(Map(to_list(users_without_hash(users), 1000), UserOut)))
    /\ UNCHANGED <<users, leads, courses, lead_status, audit_logs, now, uuid, started, faults>>

\* User(email=, nome=, tipo=): the model create_user returns
User(n, user_data, t) ==
    [id |-> Uuid4(n), email |-> user_data.email, nome |-> user_data.nome,
     tipo |-> user_data.tipo, ativo |-> TRUE, criado_em |-> t]

\* model_dump() plus senha_hash, criado_em turned into an ISO string
UserDoc(user, senha_hash) ==
    SetFields([user EXCEPT !.criado_em = isoformat(@)], [senha_hash |-> senha_hash])

create_user(c, token, user_data) ==
    /\ CanBegin(c)
    /\ nreq' = nreq + 1
    /\ LET a == get_current_user(token, users, now)
           r == Request("create_user", token, user_data, IF a.ok THEN a.user ELSE NoUser)
       IN  IF ~a.ok
           THEN Reply(c, r, a.resp) /\ UNCHANGED uuid
           ELSE IF ~admin_only(a.user)
           THEN Reply(c, r, HTTPException(403, "Acesso negado")) /\ UNCHANGED uuid
           ELSE IF FirstIndex(users, "email", user_data.email) # 0
           THEN Reply(c, r, HTTPException(400, "Email ja cadastrado")) /\ UNCHANGED uuid
           ELSE /\ uuid' = uuid + 1
                /\ Continue(c, [r EXCEPT !.pc = "insert",
                        !.loc = [user |-> User(uuid + 1, user_data, now),
                                 senha_hash |-> hash_password(user_data.senha)]])
    /\ UNCHANGED <<users, leads, courses, lead_status, audit_logs, now, started, faults>>

create_user_insert_one(c) ==
    /\ req[c].pc = "insert" /\ req[c].op = "create_user"
    /\ users' = insert_one(users, UserDoc(req[c].loc.user, req[c].loc.senha_hash))
    /\ Continue(c, [req[c] EXCEPT !.pc = "audit", !.wrote = TRUE])
    /\ UNCHANGED <<leads, courses, lead_status, audit_logs, now, uuid, started, nreq, faults>>

create_user_log_audit(c) ==
    /\ req[c].pc = "audit" /\ req[c].op = "create_user"
    /\ LET After(r) == Reply(c, r, Ok(r.loc.user))
       IN  LogAudit(c, req[c], "CREATE", "user", req[c].loc.user.id,
                    <<"Usuario criado: ", req[c].loc.user.email>>, After)
    /\ UNCHANGED <<users, leads, courses, lead_status, now, started, nreq>>

\* if 'senha' in updates: updates['senha_hash'] = hash_password(updates.pop('senha'))
hash_senha(updates) ==
    IF "senha" \in DOMAIN updates
    THEN SetFields(Without(updates, {"senha"}), [senha_hash |-> hash_password(updates.senha)])
    ELSE updates

update_user(c, token, user_id, updates) ==
    /\ CanBegin(c)
    /\ nreq' = nreq + 1
    /\ LET a == get_current_user(token, users, now)
           r == Request("update_user", token, [user_id |-> user_id, updates |-> updates],
                        IF a.ok THEN a.user ELSE NoUser)
       IN  IF ~a.ok
           THEN Reply(c, r, a.resp)
           ELSE IF ~admin_only(a.user)
           THEN Reply(c, r, HTTPException(403, "Acesso negado"))
           ELSE IF FirstIndex(users, "id", user_id) = 0
           THEN Reply(c, r, HTTPException(404, "Usuario nao encontrado"))
           ELSE Continue(c, [r EXCEPT !.pc = "update", !.loc = [updates |-> hash_senha(updates)]])
    /\ UNCHANGED <<users, leads, courses, lead_status, audit_logs, now, uuid, started, faults>>

update_user_update_one(c) ==
    /\ req[c].pc = "update" /\ req[c].op = "update_user"
    /\ users' = update_one(users, "id", req[c].arg.user_id, req[c].loc.updates)
    /\ Continue(c, [req[c] EXCEPT !.pc = "audit", !.wrote = TRUE])
    /\ UNCHANGED <<leads, courses, lead_status, audit_logs, now, uuid, started, nreq, faults>>

update_user_log_audit(c) ==
    /\ req[c].pc = "audit" /\ req[c].op = "update_user"
    /\ LET After(r) == Continue(c, [r EXCEPT !.pc = "find"])
       IN  LogAudit(c, req[c], "UPDATE", "user", req[c].arg.user_id, "Usuario atualizado", After)
    /\ UNCHANGED <<users, leads, courses, lead_status, now, started, nreq>>

\* db.users.find_one({"id": user_id}, {"_id": 0}): the same read without the projection
update_user_body_unprojected(usrs, user_id) ==
    ParseDates(find_one(usrs, "id", user_id), {"criado_em"})

\* db.users.find_one({"id": user_id}, {"_id": 0, "senha_hash": 0}), criado_em parsed
update_user_body(usrs, user_id) ==
    ParseDates(Without(find_one(usrs, "id", user_id), {"senha_hash"}), {"criado_em"})

update_user_find_one(c) ==
    /\ req[c].pc = "find" /\ req[c].op = "update_user"
    /\ IF FirstIndex(users, "id", req[c].arg.user_id) = 0
       THEN Reply(c, req[c], InternalServerError("AttributeError"))
       ELSE Reply(c, req[c], Ok(update_user_body(users, req[c].arg.user_id)))
    /\ UNCHANGED <<users, leads, courses, lead_status, audit_logs, now, uuid, started, nreq, faults>>

(***************************************************************************)
(* GET /courses, POST /courses, GET /lead-status, POST /lead-status        *)
(***************************************************************************)
IsActive(d) == d.ativo = TRUE

get_courses(c) ==
    /\ CanBegin(c)
    /\ nreq' = nreq + 1
    /\ Reply(c, Request("get_courses", NoCredentials, None, NoUser),
             Ok(to_list(Filter(courses, IsActive), 100)))
    /\ UNCHANGED <<users, leads, courses, lead_status, audit_logs, now, uuid, started, faults>>

get_lead_status(c) ==
    /\ CanBegin(c)
    /\ nreq' = nreq + 1
    /\ Reply(c, Request("get_lead_status", NoCredentials, None, NoUser), Ok(to_list(lead_status, 100)))
    /\ UNCHANGED <<users, leads, courses, lead_status, audit_logs, now, uuid, started, faults>>

\* Course(**body): id defaults to a fresh uuid4, ativo to True
Course(n, body) ==
    SetFields([id |-> Uuid4(n), ativo |-> TRUE], Restrict(body, {"id", "nome", "ativo"}))

\* LeadStatusModel(**body): id defaults to a fresh uuid4
LeadStatusModel(n, body) ==
    SetFields([id |-> Uuid4(n)], Restrict(body, {"id", "nome", "cor"}))

create_course(c, token, body) ==
    /\ CanBegin(c)
    /\ nreq' = nreq + 1
    /\ LET a == get_current_user(token, users, now)
           r == Request("create_course", token, body, IF a.ok THEN a.user ELSE NoUser)
       IN  IF ~a.ok
           THEN Reply(c, r, a.resp) /\ UNCHANGED <<courses, uuid>>
           ELSE IF ~admin_only(a.user)
           THEN Reply(c, r, HTTPException(403, "Acesso negado")) /\ UNCHANGED <<courses, uuid>>
           ELSE /\ uuid' = uuid + 1
                /\ courses' = insert_one(courses, Course(uuid + 1, body))
                /\ Continue(c, [r EXCEPT !.pc = "audit", !.wrote = TRUE,
                                         !.loc = [course |-> Course(uuid + 1, body)]])
    /\ UNCHANGED <<users, leads, lead_status, audit_logs, now, started, faults>>

create_course_log_audit(c) ==
    /\ req[c].pc = "audit" /\ req[c].op = "create_course"
    /\ LET After(r) == Reply(c, r, Ok(r.loc.course))
       IN  LogAudit(c, req[c], "CREATE", "course", req[c].loc.course.id,
                    <<"Curso criado: ", req[c].loc.course.nome>>, After)
    /\ UNCHANGED <<users, leads, courses, lead_status, now, started, nreq>>

create_lead_status(c, token, body) ==
    /\ CanBegin(c)
    /\ nreq' = nreq + 1
    /\ LET a == get_current_user(token, users, now)
           r == Request("create_lead_status", token, body, IF a.ok THEN a.user ELSE NoUser)
       IN  IF ~a.ok
           THEN Reply(c, r, a.resp) /\ UNCHANGED <<lead_status, uuid>>
           ELSE IF ~admin_only(a.user)
           THEN Reply(c, r, HTTPException(403, "Acesso negado")) /\ UNCHANGED <<lead_status, uuid>>
           ELSE /\ uuid' = uuid + 1
                /\ lead_status' = insert_one(lead_status, LeadStatusModel(uuid + 1, body))
                /\ Continue(c, [r EXCEPT !.pc = "audit", !.wrote = TRUE,
                                         !.loc = [lead_status |-> LeadStatusModel(uuid + 1, body)]])
    /\ UNCHANGED <<users, leads, courses, audit_logs, now, started, faults>>

create_lead_status_log_audit(c) ==
    /\ req[c].pc = "audit" /\ req[c].op = "create_lead_status"
    /\ LET After(r) == Reply(c, r, Ok(r.loc.lead_status))
       IN  LogAudit(c, req[c], "CREATE", "lead_status", req[c].loc.lead_status.id,
                    <<"Status criado: ", req[c].loc.lead_status.nome>>, After)
    /\ UNCHANGED <<users, leads, courses, lead_status, now, started, nreq>>

(***************************************************************************)
(* GET /audit-logs                                                         *)
(***************************************************************************)
\* seq sorted, stably, so that x comes before y whenever Before(x, y)
SortBy(seq, Before(_, _)) ==
    LET Rank(i) == Cardinality({j \in 1..Len(seq) :
                        \/ Before(seq[j], seq[i])
                        \/ (~Before(seq[i], seq[j]) /\ j <= i)})
    IN  [k \in 1..Len(seq) |-> seq[CHOOSE i \in 1..Len(seq) : Rank(i) = k]]

\* the order of two ISO strings
IsoLess(s, t) == s[1] < t[1] \/ (s[1] = t[1] /\ s[2] < t[2])

get_audit_logs(c, token, limit) ==
    /\ CanBegin(c)
    /\ nreq' = nreq + 1
    /\ LET a == get_current_user(token, users, now)
           r == Request("get_audit_logs", token, limit, IF a.ok THEN a.user ELSE NoUser)
           Newer(x, y) == IsoLess(y.criado_em, x.criado_em)
           Parse(d) == ParseDates(d, {"criado_em"})
       IN  IF ~a.ok
           THEN Reply(c, r, a.resp)
           ELSE IF ~admin_only(a.user)
           THEN Reply(c, r, HTTPException(403, "Acesso negado"))
           ELSE Reply(c, r, Ok(Map(to_list(SortBy(audit_logs, Newer), limit), Parse)))
    /\ UNCHANGED <<users, leads, courses, lead_status, audit_logs, now, uuid, started, faults>>

(***************************************************************************)
(* GET /system/backup                                                      *)
(***************************************************************************)
\* the check of the handlers open to coordinators and administrators
backup_system_allowed_managers(current_user) ==
    current_user.tipo \in {"coordenador", "administrador"}

backup_system_allowed(current_user) == current_user.tipo = "administrador"

backup_system(c, token) ==
    /\ CanBegin(c)
    /\ nreq' = nreq + 1
    /\ LET a == get_current_user(token, users, now)
           r == Request("backup_system", token, None, IF a.ok THEN a.user ELSE NoUser)
       IN  IF ~a.ok
           THEN Reply(c, r, a.resp)
           ELSE IF ~backup_system_allowed(a.user)
           THEN Reply(c, r, HTTPException(403, "Acesso negado"))
           ELSE Continue(c, [r EXCEPT !.pc = "leads",
                    !.loc = [Usuarios |-> to_list(users_without_hash(users), 10000)]])
    /\ UNCHANGED <<users, leads, courses, lead_status, audit_logs, now, uuid, started, faults>>

backup_system_leads(c) ==
    /\ req[c].pc = "leads" /\ req[c].op = "backup_system"
    /\ Continue(c, [req[c] EXCEPT !.pc = "courses",
                        !.loc = SetFields(@, [Leads |-> to_list(leads, 10000)])])
    /\ UNCHANGED <<users, leads, courses, lead_status, audit_logs, now, uuid, started, nreq, faults>>

backup_system_courses(c) ==
    /\ req[c].pc = "courses" /\ req[c].op = "backup_system"
    /\ Continue(c, [req[c] EXCEPT !.pc = "statuses",
                        !.loc = SetFields(@, [Cursos |-> to_list(courses, 10000)])])
    /\ UNCHANGED <<users, leads, courses, lead_status, audit_logs, now, uuid, started, nreq, faults>>

backup_system_statuses(c) ==
    /\ req[c].pc = "statuses" /\ req[c].op = "backup_system"
    /\ Continue(c, [req[c] EXCEPT !.pc = "audit",
                        !.loc = SetFields(@, [Status |-> to_list(lead_status, 10000)])])
    /\ UNCHANGED <<users, leads, courses, lead_status, audit_logs, now, uuid, started, nreq, faults>>

backup_system_log_audit(c) ==
    /\ req[c].pc = "audit" /\ req[c].op = "backup_system"
    /\ LET After(r) == Reply(c, r, Ok(r.loc))
       IN  LogAudit(c, req[c], "BACKUP", "system", "full", "Backup completo realizado", After)
    /\ UNCHANGED <<users, leads, courses, lead_status, now, started, nreq>>

(***************************************************************************)
(* GET /leads/my, GET /leads, GET /reports/export/{format}                 *)
(***************************************************************************)
\* `if v:` for an optional string parameter
Truthy(v) == v # None /\ v # ""

\* the query built from the optional filters
lead_query(curso, status, vendedor_id) ==
    NotNone([curso |-> IF Truthy(curso) THEN curso ELSE None,
             status |-> IF Truthy(status) THEN status ELSE None,
             vendedor_id |-> IF Truthy(vendedor_id) THEN vendedor_id ELSE None])

\* a find that takes the documents equal to the query on some key of it
find_any(coll, query) ==
    LET Matches(d) == \E k \in DOMAIN query : k \in DOMAIN d /\ d[k] = query[k]
    IN  Filter(coll, Matches)

\* collection.find(query): the documents equal to the query on every key of it
find(coll, query) ==
    LET Matches(d) == \A k \in DOMAIN query : k \in DOMAIN d /\ d[k] = query[k]
    IN  Filter(coll, Matches)

LeadOut(d) == ParseDates(d, {"criado_em", "atualizado_em"})

\* a listing that leaves the owner out of its query
get_my_leads_unfiltered(c, token) ==
    /\ CanBegin(c)
    /\ nreq' = nreq + 1
    /\ LET a == get_current_user(token, users, now)
           r == Request("get_my_leads", token, None, IF a.ok THEN a.user ELSE NoUser)
       IN  IF ~a.ok
           THEN Reply(c, r, a.resp)
           ELSE IF ~create_lead_allowed(a.user)
           THEN Reply(c, r, HTTPException(403, "Acesso negado"))
           ELSE Reply(c, r, Ok(Map(to_list(find(leads, <<>>), 1000), LeadOut)))
    /\ UNCHANGED <<users, leads, courses, lead_status, audit_logs, now, uuid, started, faults>>

get_my_leads(c, token) ==
    /\ CanBegin(c)
    /\ nreq' = nreq + 1
    /\ LET a == get_current_user(token, users, now)
           r == Request("get_my_leads", token, None, IF a.ok THEN a.user ELSE NoUser)
       IN  IF ~a.ok
           THEN Reply(c, r, a.resp)
           ELSE IF ~create_lead_allowed(a.user)
           THEN Reply(c, r, HTTPException(403, "Acesso negado"))
           ELSE Reply(c, r, Ok(Map(to_list(find(leads, [vendedor_id |-> a.user.id]), 1000),
                                   LeadOut)))
    /\ UNCHANGED <<users, leads, courses, lead_status, audit_logs, now, uuid, started, faults>>

get_all_leads(c, token, curso, status, vendedor_id) ==
    /\ CanBegin(c)
    /\ nreq' = nreq + 1
    /\ LET a == get_current_user(token, users, now)
           r == Request("get_all_leads", token,
                        [curso |-> curso, status |-> status, vendedor_id |-> vendedor_id],
                        IF a.ok THEN a.user ELSE NoUser)
       IN  IF ~a.ok
           THEN Reply(c, r, a.resp)
           ELSE IF ~leads_write_allowed(a.user)
           THEN Reply(c, r, HTTPException(403, "Acesso negado"))
           ELSE Reply(c, r, Ok(Map(to_list(find(leads, lead_query(curso, status, vendedor_id)),
                                           5000), LeadOut)))
    /\ UNCHANGED <<users, leads, courses, lead_status, audit_logs, now, uuid, started, faults>>

\* the file export_leads streams: its name and the rows of its only table
export_file(format, rows) ==
    IF format = "csv" THEN Ok([filename |-> "leads.csv", encoding |-> "utf-8-sig", rows |-> rows])
    ELSE IF format = "excel" THEN Ok([filename |-> "leads.xlsx", sheet_name |-> "Leads", rows |-> rows])
    ELSE HTTPException(400, "Formato nao suportado")

export_leads(c, token, format, curso, status, vendedor_id) ==
    /\ CanBegin(c)
    /\ nreq' = nreq + 1
    /\ LET a == get_current_user(token, users, now)
           r == Request("export_leads", token,
                        [format |-> format, curso |-> curso, status |-> status,
                         vendedor_id |-> vendedor_id],
                        IF a.ok THEN a.user ELSE NoUser)
           rows == to_list(find(leads, lead_query(curso, status, vendedor_id)), 10000)
       IN  IF ~a.ok
           THEN Reply(c, r, a.resp)
           ELSE IF ~leads_write_allowed(a.user)
           THEN Reply(c, r, HTTPException(403, "Acesso negado"))
           ELSE IF Len(rows) = 0
           THEN Reply(c, r, HTTPException(404, "Nenhum lead encontrado"))
           ELSE Reply(c, r, export_file(format, rows))
    /\ UNCHANGED <<users, leads, courses, lead_status, audit_logs, now, uuid, started, faults>>

(***************************************************************************)
(* Aggregation pipelines.  $group yields its groups in the order in which  *)
(* their keys first occur; $sort is stable.                                *)
(***************************************************************************)
\* the distinct values of Key over seq, in order of first occurrence
GroupKeys(seq, Key(_)) ==
    LET first == {i \in 1..Len(seq) : \A j \in 1..(i - 1) : Key(seq[j]) # Key(seq[i])}
        firsts == At(seq, first)
    IN  [g \in 1..Len(firsts) |-> Key(firsts[g])]

\* {"$sum": {"$cond": [Test, 1, 0]}} over seq
CountIf(seq, Test(_)) == Cardinality({i \in 1..Len(seq) : Test(seq[i])})

\* {"$group": {"_id": Key, "count": {"$sum": 1}}}
group_count(seq, Key(_)) ==
    LET ks == GroupKeys(seq, Key)
    IN  [g \in 1..Len(ks) |->
            [id_ |-> ks[g], count |-> CountIf(seq, LAMBDA d : Key(d) = ks[g])]]

\* {"$substr": ["$criado_em", 0, 7]}: the "YYYY-MM" of an ISO string
substr7(s) == s[1]

MonthOf(d) == substr7(d.criado_em)
StatusOf(d) == d.status
CursoOf(d) == d.curso
VendedorOf(d) == d.vendedor_id
ByCountDesc(x, y) == x.count > y.count
ByIdDesc(x, y) == x.id_ > y.id_
ByIdAsc(x, y) == x.id_ < y.id_
ByTotalDesc(x, y) == x.total_leads > y.total_leads

\* a monthly pipeline without its $match stage
stats_monthly_unmatched(lds, vendedor_id) ==
    to_list(SortBy(group_count(lds, MonthOf), ByIdDesc), 12)

\* the monthly pipeline of get_leads_stats
stats_monthly(lds, vendedor_id) ==
    to_list(SortBy(group_count(find(lds, [vendedor_id |-> vendedor_id]), MonthOf), ByIdDesc), 12)

\* the pipelines of get_dashboard
status_dist(lds) == to_list(group_count(lds, StatusOf), 100)

\* a course pipeline without its $sort stage
curso_dist_unsorted(lds) == to_list(to_list(group_count(lds, CursoOf), 5), 5)

curso_dist(lds) == to_list(to_list(SortBy(group_count(lds, CursoOf), ByCountDesc), 5), 5)

vendedor_group(lds) ==
    LET ks == GroupKeys(lds, VendedorOf)
    IN  [g \in 1..Len(ks) |->
            [id_ |-> ks[g],
             vendedor_nome |-> find_one(lds, "vendedor_id", ks[g]).vendedor_nome,
             total_leads |-> CountIf(lds, LAMBDA d : d.vendedor_id = ks[g]),
             matriculados |-> CountIf(lds, LAMBDA d : d.vendedor_id = ks[g]
                                                       /\ d.status = "Matriculado")]]

vendedor_ranking(lds) == to_list(SortBy(vendedor_group(lds), ByTotalDesc), 100)

monthly_leads(lds) == to_list(SortBy(group_count(lds, MonthOf), ByIdAsc), 12)

(***************************************************************************)
(* GET /leads/stats                                                        *)
(***************************************************************************)
get_leads_stats(c, token) ==
    /\ CanBegin(c)
    /\ nreq' = nreq + 1
    /\ LET a == get_current_user(token, users, now)
           r == Request("get_leads_stats", token, None, IF a.ok THEN a.user ELSE NoUser)
       IN  IF ~a.ok
           THEN Reply(c, r, a.resp)
           ELSE IF ~create_lead_allowed(a.user)
           THEN Reply(c, r, HTTPException(403, "Acesso negado"))
           ELSE Continue(c, [r EXCEPT !.pc = "aggregate",
                    !.loc = [total |-> Len(find(leads, [vendedor_id |-> a.user.id]))]])
    /\ UNCHANGED <<users, leads, courses, lead_status, audit_logs, now, uuid, started, faults>>

get_leads_stats_aggregate(c) ==
    /\ req[c].pc = "aggregate" /\ req[c].op = "get_leads_stats"
    /\ Reply(c, req[c], Ok([total |-> req[c].loc.total,
                            monthly |-> stats_monthly(leads, req[c].cu.id)]))
    /\ UNCHANGED <<users, leads, courses, lead_status, audit_logs, now, uuid, started, nreq, faults>>

(***************************************************************************)
(* GET /dashboard                                                          *)
(***************************************************************************)
get_dashboard(c, token) ==
    /\ CanBegin(c)
    /\ nreq' = nreq + 1
    /\ LET a == get_current_user(token, users, now)
           r == Request("get_dashboard", token, None, IF a.ok THEN a.user ELSE NoUser)
       IN  IF ~a.ok
           THEN Reply(c, r, a.resp)
           ELSE IF ~leads_write_allowed(a.user)
           THEN Reply(c, r, HTTPException(403, "Acesso negado"))
           ELSE Continue(c, [r EXCEPT !.pc = "status", !.loc = [total_leads |-> Len(leads)]])
    /\ UNCHANGED <<users, leads, courses, lead_status, audit_logs, now, uuid, started, faults>>

get_dashboard_status(c) ==
    /\ req[c].pc = "status" /\ req[c].op = "get_dashboard"
    /\ Continue(c, [req[c] EXCEPT !.pc = "curso",
                        !.loc = SetFields(@, [status_distribution |-> status_dist(leads)])])
    /\ UNCHANGED <<users, leads, courses, lead_status, audit_logs, now, uuid, started, nreq, faults>>

get_dashboard_curso(c) ==
    /\ req[c].pc = "curso" /\ req[c].op = "get_dashboard"
    /\ Continue(c, [req[c] EXCEPT !.pc = "vendedor",
                        !.loc = SetFields(@, [curso_distribution |-> curso_dist(leads)])])
    /\ UNCHANGED <<users, leads, courses, lead_status, audit_logs, now, uuid, started, nreq, faults>>

get_dashboard_vendedor(c) ==
    /\ req[c].pc = "vendedor" /\ req[c].op = "get_dashboard"
    /\ Continue(c, [req[c] EXCEPT !.pc = "monthly",
                        !.loc = SetFields(@, [vendedor_ranking |-> vendedor_ranking(leads)])])
    /\ UNCHANGED <<users, leads, courses, lead_status, audit_logs, now, uuid, started, nreq, faults>>

get_dashboard_monthly(c) ==
    /\ req[c].pc = "monthly" /\ req[c].op = "get_dashboard"
    /\ Reply(c, req[c], Ok(SetFields(req[c].loc, [monthly_leads |-> monthly_leads(leads)])))
    /\ UNCHANGED <<users, leads, courses, lead_status, audit_logs, now, uuid, started, nreq, faults>>

(***************************************************************************)
(* What clients send.                                                      *)
(***************************************************************************)
UnknownId == "unknown"

\* the token login issues to user u at time t
BearerFor(u, t) == create_access_token([sub |-> u.id, tipo |-> u.tipo], t)

\* a live token of every stored user
LiveCredentials == {BearerFor(users[i], now) : i \in 1..Len(users)}

\* live tokens of the stored users of one role
CredentialsOf(tipo) == {BearerFor(users[i], now) : i \in {j \in 1..Len(users) : users[j].tipo = tipo}}

\* bearer credentials: a live token of every stored user, a token that has expired,
\* a string that is no signed token, a signed token without sub, and a signed token
\* whose sub matches no user
Credentials ==
    LiveCredentials
    \cup {BearerFor(users[i], now - Minutes(ACCESS_TOKEN_EXPIRE_MINUTES)) : i \in {1} \cap DOMAIN users}
    \cup {[sig |-> "bad", claims |-> <<>>],
          [sig |-> "ok", claims |-> [tipo |-> "administrador",
                                     exp |-> now + Minutes(ACCESS_TOKEN_EXPIRE_MINUTES)]],
          BearerFor([id |-> UnknownId, tipo |-> "administrador"], now)}

PlainLead == [nome_completo |-> "Novo Lead", telefone |-> "(84) 90000-0000", curso |-> "Direito"]

\* a body with fields LeadCreate does not have
ForgedLead ==
    [nome_completo |-> "Outro Lead", telefone |-> "(84) 91111-1111", curso |-> "Direito",
     id |-> "forged", status |-> "Matriculado", vendedor_id |-> "forged",
     vendedor_nome |-> "Forged", criado_em |-> 0]

LeadBodies == {PlainLead, ForgedLead}

\* a body with fields LeadUpdate does not have
ForgedPatch ==
    [nome_completo |-> "Outro Nome", vendedor_id |-> "forged", vendedor_nome |-> "Forged",
     id |-> "forged", criado_em |-> 0]

LeadPatches ==
    {[status |-> "Matriculado"],
     [telefone |-> "", curso |-> "Direito", status |-> None],
     ForgedPatch,
     [status |-> None]}

\* the id of the first lead and of every lead past the samples, and an id of no lead
LeadIds ==
    {leads[i].id : i \in {i \in DOMAIN leads : i = 1 \/ i > Len(sample_leads_data)}}
    \cup {UnknownId}

NewUser ==
    [email |-> "novo@lead.com.br", nome |-> "Novo Vendedor", tipo |-> "vendedor", senha |-> "novo123"]

\* a user whose email is the email of a seeded user
SameEmailUser ==
    [email |-> "vendedor@lead.com.br", nome |-> "Outro", tipo |-> "administrador", senha |-> "novo123"]

UserDatas == {NewUser, SameEmailUser}

\* the id of the first user (the seeded seller), of every user past the seeds, and an
\* id of no user
UserIds ==
    {users[i].id : i \in {i \in DOMAIN users : i = 1 \/ i > Len(default_users_data)}}
    \cup {UnknownId}

UserUpdates ==
    {[ativo |-> FALSE],
     [nome |-> "Renomeado"],
     [email |-> "adm@lead.com.br"],
     [tipo |-> "coordenador"],
     [senha |-> "nova123"],
     [senha_hash |-> RawString("x")],
     [id |-> "moved"]}

PlainCourse == [nome |-> "Novo Curso"]
PlainStatus == [nome |-> "Perdido", cor |-> "#000000"]

Emails == {"vendedor@lead.com.br", "novo@lead.com.br", "ninguem@lead.com.br"}
Senhas == {"vendedor123", "novo123", "errada"}

Formats == {"csv", "excel", "pdf"}

(***************************************************************************)
(* Spec: every operation of the API, sent by a user of every role with one *)
(* or two arguments each, and sent with every credential that resolves to  *)
(* no user, at one instant of the clock.                                   *)
(***************************************************************************)
Receive(c) ==
    \/ \E email \in {"vendedor@lead.com.br", "ninguem@lead.com.br"} : login(c, email, "vendedor123")
    \/ get_courses(c)
    \/ get_lead_status(c)
    \/ \E token \in Credentials :
        \/ get_me(c, token)
        \/ create_lead(c, token, PlainLead)
        \/ backup_system(c, token)
    \/ \E token \in LiveCredentials :
        \/ get_my_leads(c, token)
        \/ get_leads_stats(c, token)
        \/ get_all_leads(c, token, None, None, None)
        \/ \E lead_id \in {leads[i].id : i \in {1} \cap DOMAIN leads} :
               update_lead(c, token, lead_id, [status |-> "Matriculado"])
        \/ get_dashboard(c, token)
        \/ \E format \in {"csv", "pdf"} : export_leads(c, token, format, None, None, None)
        \/ get_users(c, token)
        \/ create_user(c, token, NewUser)
        \/ \E user_id \in {users[i].id : i \in {1} \cap DOMAIN users} :
               update_user(c, token, user_id, [ativo |-> FALSE])
        \/ create_course(c, token, PlainCourse)
        \/ create_lead_status(c, token, PlainStatus)
        \/ get_audit_logs(c, token, 100)

Resume(c) ==
    \/ create_lead_log_audit(c)
    \/ update_lead_update_one(c)
    \/ update_lead_log_audit(c)
    \/ update_lead_find_one(c)
    \/ get_leads_stats_aggregate(c)
    \/ get_dashboard_status(c)
    \/ get_dashboard_curso(c)
    \/ get_dashboard_vendedor(c)
    \/ get_dashboard_monthly(c)
    \/ create_user_insert_one(c)
    \/ create_user_log_audit(c)
    \/ update_user_update_one(c)
    \/ update_user_log_audit(c)
    \/ update_user_find_one(c)
    \/ create_course_log_audit(c)
    \/ create_lead_status_log_audit(c)
    \/ backup_system_leads(c)
    \/ backup_system_courses(c)
    \/ backup_system_statuses(c)
    \/ backup_system_log_audit(c)

Next ==
    \/ startup_db
    \/ \E c \in Clients : Receive(c) \/ Resume(c)

Spec == Init /\ [][Next]_vars

(***************************************************************************)
(* SpecUsers: the operations on users, with every argument above; the      *)
(* writes are sent by administrators.                                      *)
(***************************************************************************)
ReceiveUsers(c) ==
    \/ \E email \in Emails, senha \in Senhas : login(c, email, senha)
    \/ \E token \in LiveCredentials : get_me(c, token)
    \/ \E token \in CredentialsOf("administrador") :
        \/ get_users(c, token)
        \/ \E user_data \in UserDatas : create_user(c, token, user_data)
        \/ \E user_id \in UserIds, updates \in UserUpdates : update_user(c, token, user_id, updates)
        \/ backup_system(c, token)

ResumeUsers(c) ==
    \/ create_user_insert_one(c)
    \/ create_user_log_audit(c)
    \/ update_user_update_one(c)
    \/ update_user_log_audit(c)
    \/ update_user_find_one(c)
    \/ backup_system_leads(c)
    \/ backup_system_courses(c)
    \/ backup_system_statuses(c)
    \/ backup_system_log_audit(c)

NextUsers ==
    \/ startup_db
    \/ \E c \in Clients : ReceiveUsers(c) \/ ResumeUsers(c)

SpecUsers == Init /\ [][NextUsers]_vars

(***************************************************************************)
(* SpecLeads: the writes to leads and to their owner, with every argument  *)
(* above, at one instant of the clock.                                     *)
(***************************************************************************)
ReceiveLeads(c) ==
    \/ \E token \in CredentialsOf("vendedor"), body \in LeadBodies : create_lead(c, token, body)
    \/ \E token \in CredentialsOf("coordenador"), lead_id \in LeadIds, body \in LeadPatches :
           update_lead(c, token, lead_id, body)
    \/ \E token \in CredentialsOf("administrador"),
          user_id \in {users[i].id : i \in {1} \cap DOMAIN users},
          updates \in {[nome |-> "Renomeado"], [id |-> "moved"]} :
           update_user(c, token, user_id, updates)

ResumeLeads(c) ==
    \/ create_lead_log_audit(c)
    \/ update_lead_update_one(c)
    \/ update_lead_log_audit(c)
    \/ update_lead_find_one(c)
    \/ update_user_update_one(c)
    \/ update_user_log_audit(c)
    \/ update_user_find_one(c)

NextLeads ==
    \/ startup_db
    \/ \E c \in Clients : ReceiveLeads(c) \/ ResumeLeads(c)

SpecLeads == Init /\ [][NextLeads]_vars

(***************************************************************************)
(* SpecClock: leads created and updated, and their owner renamed, while    *)
(* the clock advances.                                                     *)
(***************************************************************************)
ReceiveClock(c) ==
    \/ \E token \in CredentialsOf("vendedor"), body \in LeadBodies : create_lead(c, token, body)
    \/ \E token \in CredentialsOf("coordenador"), lead_id \in LeadIds :
           update_lead(c, token, lead_id, ForgedPatch)
    \/ \E token \in CredentialsOf("administrador"),
          user_id \in {users[i].id : i \in {1} \cap DOMAIN users} :
           update_user(c, token, user_id, [nome |-> "Renomeado"])

NextClock ==
    \/ startup_db
    \/ Tick
    \/ \E c \in Clients : ReceiveClock(c) \/ ResumeLeads(c)

SpecClock == Init /\ [][NextClock]_vars

(***************************************************************************)
(* SpecRace: coordinators update the first lead, two requests in flight at *)
(* a time, while the clock advances.                                       *)
(***************************************************************************)
RacePatches ==
    {[status |-> "Matriculado", telefone |-> "(84) 92222-2222"],
     [status |-> "Em negociacao", curso |-> "Direito"],
     [nome_completo |-> "Outro Nome", status |-> None]}

ReceiveRace(c) ==
    \E token \in CredentialsOf("coordenador"),
       lead_id \in {leads[i].id : i \in {1} \cap DOMAIN leads},
       body \in RacePatches :
        update_lead(c, token, lead_id, body)

ResumeRace(c) ==
    \/ update_lead_update_one(c)
    \/ update_lead_log_audit(c)
    \/ update_lead_find_one(c)

NextRace ==
    \/ startup_db
    \/ Tick
    \/ \E c \in Clients : ReceiveRace(c) \/ ResumeRace(c)

SpecRace == Init /\ [][NextRace]_vars

(***************************************************************************)
(* SpecReads: the listing, export, statistics and dashboard operations     *)
(* over stores the application reaches after startup_db: the administrator *)
(* has created a second seller, and the sellers have created leads whose   *)
(* status a coordinator has then set, at the times given by a history.     *)
(***************************************************************************)
\* an event of a history: seller `by` (1: the seeded seller, 2: the created one)
\* creates a lead of a course at time t, and a coordinator sets its status
Event(by, curso, status, t) == [by |-> by, curso |-> curso, status |-> status, t |-> t]

\* the created seller has three leads, two of one course
HistoryTwoSellers ==
    <<Event(2, "Direito", "Novo", StartClock),
      Event(2, "Direito", "Matriculado", StartClock),
      Event(2, "Enfermagem", "Matriculado", StartClock)>>

\* the seeded seller creates one lead in each of the twelve months after the seeding,
\* and a second one in the last of them
HistoryYear ==
    [k \in 1..13 |->
        Event(1, default_course_names[k], "Novo",
              (IF k = 13 THEN 14 ELSE k + 2) * TicksPerMonth + Days(1))]

\* the created seller has more leads than the seeded one, all of a course which
\* no seeded lead has
HistoryBusy ==
    [k \in 1..13 |->
        Event(2, "Sistema da Informacao", IF k % 2 = 0 THEN "Matriculado" ELSE "Em negociacao",
              StartClock)]

Histories == {<<>>, HistoryTwoSellers, HistoryYear, HistoryBusy}

\* the ids startup_db consumes, then one for the created seller and one for its audit entry
SeedIds == Len(default_users_data) + Len(default_course_names)
             + Len(default_statuses_data) + Len(sample_leads_data)

reads_users ==
    default_users(0, StartClock)
        \o <<UserDoc(User(SeedIds + 1, NewUser, StartClock), hash_password(NewUser.senha))>>

reads_seller(by) == IF by = 1 THEN reads_users[1] ELSE reads_users[4]

\* event k of a history takes three ids: the lead, and its two audit entries
reads_id(k, j) == SeedIds + 2 + 3 * (k - 1) + j

reads_lead(k, e) ==
    [LeadDoc(Lead(reads_id(k, 1), LeadCreate([PlainLead EXCEPT !.curso = e.curso]),
                  reads_seller(e.by).id, reads_seller(e.by).nome, e.t))
        EXCEPT !.status = e.status]

reads_leads(h) ==
    sample_leads(SeedIds - Len(sample_leads_data), reads_users[1], StartClock)
        \o [k \in 1..Len(h) |-> reads_lead(k, h[k])]

reads_audit_logs(h) ==
    <<AuditLog(SeedIds + 2, reads_users[3].id, reads_users[3].nome, "CREATE", "user",
               reads_users[4].id, <<"Usuario criado: ", NewUser.email>>, StartClock)>>
        \o [j \in 1..(2 * Len(h)) |->
               LET k == (j + 1) \div 2
                   e == h[k]
               IN  IF j % 2 = 1
                   THEN AuditLog(reads_id(k, 2), reads_seller(e.by).id, reads_seller(e.by).nome,
                                 "CREATE", "lead", Uuid4(reads_id(k, 1)),
                                 <<"Lead criado: ", PlainLead.nome_completo>>, e.t)
                   ELSE AuditLog(reads_id(k, 3), reads_users[2].id, reads_users[2].nome,
                                 "UPDATE", "lead", Uuid4(reads_id(k, 1)), "Lead atualizado", e.t)]

InitReads ==
    \E h \in Histories :
        /\ users = reads_users
        /\ leads = reads_leads(h)
        /\ courses = default_courses(Len(default_users_data))
        /\ lead_status = default_statuses(Len(default_users_data) + Len(default_course_names))
        /\ audit_logs = reads_audit_logs(h)
        /\ now = IF Len(h) = 0 THEN StartClock ELSE h[Len(h)].t
        /\ uuid = SeedIds + 2 + 3 * Len(h)
        /\ started = TRUE
        /\ req = [c \in Clients |-> Idle]
        /\ last = NoRequest
        /\ nreq = 0
        /\ faults = 0

\* the filters a client sends to GET /leads and GET /export/leads: curso, status, vendedor_id
LeadFilters ==
    {<<None, None, None>>, <<"", None, None>>, <<"Direito", None, None>>,
     <<None, "Matriculado", None>>, <<None, None, UnknownId>>}
    \cup {<<None, None, users[i].id>> : i \in {1} \cap DOMAIN users}
    \cup {<<"Direito", "Matriculado", users[i].id>> : i \in {4} \cap DOMAIN users}

ReceiveReads(c) ==
    \/ \E token \in CredentialsOf("vendedor") :
        \/ get_my_leads(c, token)
        \/ get_leads_stats(c, token)
    \/ \E token \in CredentialsOf("coordenador") :
        \/ get_dashboard(c, token)
        \/ \E f \in LeadFilters :
            \/ get_all_leads(c, token, f[1], f[2], f[3])
            \/ \E format \in Formats : export_leads(c, token, format, f[1], f[2], f[3])
    \/ \E i \in {4} \cap DOMAIN users : create_lead(c, BearerFor(users[i], now), PlainLead)

ResumeReads(c) ==
    \/ get_leads_stats_aggregate(c)
    \/ get_dashboard_status(c)
    \/ get_dashboard_curso(c)
    \/ get_dashboard_vendedor(c)
    \/ get_dashboard_monthly(c)
    \/ create_lead_log_audit(c)

NextReads == \E c \in Clients : ReceiveReads(c) \/ ResumeReads(c)

SpecReads == InitReads /\ [][NextReads]_vars

(***************************************************************************)
(* SpecStartup: the server starts, and restarts, on a database in which    *)
(* each collection is empty or already holds records of an earlier         *)
(* deployment (written at StartClock - Days(1), with ids below KeptIds).   *)
(***************************************************************************)
KeptIds == 9

kept_user(n, email, nome, tipo) ==
    UserDoc(User(n, [email |-> email, nome |-> nome, tipo |-> tipo], StartClock - Days(1)),
            hash_password("antiga123"))

\* no user; an administrator and no seller; two sellers
kept_users ==
    {<<>>,
     <<kept_user(1, "chefe@lead.com.br", "Chefe", "administrador")>>,
     <<kept_user(1, "chefe@lead.com.br", "Chefe", "administrador"),
       kept_user(2, "ana@lead.com.br", "Ana", "vendedor"),
       kept_user(3, "bruno@lead.com.br", "Bruno", "vendedor")>>}

kept_courses == {<<>>, <<[id |-> Uuid4(4), nome |-> "Curso Antigo", ativo |-> FALSE]>>}

kept_statuses == {<<>>, <<[id |-> Uuid4(5), nome |-> "Arquivado", cor |-> "#000000"]>>}

\* a lead whose owner need not be a stored user
kept_leads ==
    {<<>>,
     <<[LeadDoc(Lead(6, LeadCreate(PlainLead), Uuid4(3), "Bruno", StartClock - Days(1)))
            EXCEPT !.status = "Matriculado"]>>}

InitStartup ==
    /\ users \in kept_users
    /\ courses \in kept_courses
    /\ lead_status \in kept_statuses
    /\ leads \in kept_leads
    /\ audit_logs = <<>>
    /\ now = StartClock
    /\ uuid = KeptIds
    /\ started = FALSE
    /\ req = [c \in Clients |-> Idle]
    /\ last = NoRequest
    /\ nreq = 0
    /\ faults = 0

ReceiveStartup(c) ==
    \/ \E email \in {"vendedor@lead.com.br", "ana@lead.com.br"} : login(c, email, "vendedor123")
    \/ get_courses(c)
    \/ get_lead_status(c)
    \/ \E token \in CredentialsOf("vendedor") :
        \/ create_lead(c, token, PlainLead)
        \/ get_my_leads(c, token)

NextStartup ==
    \/ startup_db
    \/ Tick
    \/ \E c \in Clients : ReceiveStartup(c) \/ create_lead_log_audit(c)

SpecStartup == InitStartup /\ [][NextStartup]_vars

(***************************************************************************)
(* SpecCrowd: the dashboard over a store the application reaches once the  *)
(* administrator has created CrowdSellers sellers and each of them has     *)
(* created one lead.                                                       *)
(***************************************************************************)
CrowdSellers == 100

crowd_user(k) ==
    UserDoc(User(SeedIds + k,
                 [email |-> "vendedor" \o ToString(k) \o "@lead.com.br",
                  nome |-> "Vendedor " \o ToString(k), tipo |-> "vendedor"],
                 StartClock),
            hash_password("vendedor123"))

crowd_users == default_users(0, StartClock) \o [k \in 1..CrowdSellers |-> crowd_user(k)]

crowd_lead(k) ==
    LeadDoc(Lead(SeedIds + CrowdSellers + k, LeadCreate(PlainLead),
                 crowd_user(k).id, crowd_user(k).nome, StartClock))

crowd_leads ==
    sample_leads(SeedIds - Len(sample_leads_data), crowd_users[1], StartClock)
        \o [k \in 1..CrowdSellers |-> crowd_lead(k)]

crowd_audit_logs ==
    [j \in 1..(2 * CrowdSellers) |->
        IF j <= CrowdSellers
        THEN AuditLog(SeedIds + 2 * CrowdSellers + j, crowd_users[3].id, crowd_users[3].nome,
                      "CREATE", "user", crowd_user(j).id,
                      <<"Usuario criado: ", crowd_user(j).email>>, StartClock)
        ELSE AuditLog(SeedIds + 2 * CrowdSellers + j, crowd_user(j - CrowdSellers).id,
                      crowd_user(j - CrowdSellers).nome, "CREATE", "lead",
                      crowd_lead(j - CrowdSellers).id,
                      <<"Lead criado: ", PlainLead.nome_completo>>, StartClock)]

InitCrowd ==
    /\ users = crowd_users
    /\ leads = crowd_leads
    /\ courses = default_courses(Len(default_users_data))
    /\ lead_status = default_statuses(Len(default_users_data) + Len(default_course_names))
    /\ audit_logs = crowd_audit_logs
    /\ now = StartClock
    /\ uuid = SeedIds + 4 * CrowdSellers
    /\ started = TRUE
    /\ req = [c \in Clients |-> Idle]
    /\ last = NoRequest
    /\ nreq = 0
    /\ faults = 0

ReceiveCrowd(c) ==
    \/ \E token \in CredentialsOf("coordenador") : get_dashboard(c, token)
    \/ \E i \in {1, 4} : create_lead(c, BearerFor(users[i], now), PlainLead)

ResumeCrowd(c) ==
    \/ get_dashboard_status(c)
    \/ get_dashboard_curso(c)
    \/ get_dashboard_vendedor(c)
    \/ get_dashboard_monthly(c)
    \/ create_lead_log_audit(c)

NextCrowd == \E c \in Clients : ReceiveCrowd(c) \/ ResumeCrowd(c)

SpecCrowd == InitCrowd /\ [][NextCrowd]_vars

(***************************************************************************)
(* SpecSessions: the administrator deactivates the seeded seller and       *)
(* coordinator while they log in and use tokens issued during the current  *)
(* and the previous token lifetime.                                        *)
(***************************************************************************)
\* the tokens login has issued to the seeded seller and coordinator during the
\* previous token lifetime and the current one
SessionTokens ==
    {BearerFor(users[i], t) : i \in {1, 2} \cap DOMAIN users,
                              t \in {now - Minutes(ACCESS_TOKEN_EXPIRE_MINUTES), now}}

ReceiveSessions(c) ==
    \/ \E i \in {1, 2} : login(c, default_users_data[i][1], default_users_data[i][4])
    \/ \E token \in CredentialsOf("administrador"), i \in {1, 2} \cap DOMAIN users :
        update_user(c, token, users[i].id, [ativo |-> FALSE])
    \/ \E token \in SessionTokens :
        \/ get_me(c, token)
        \/ get_my_leads(c, token)
        \/ get_all_leads(c, token, None, None, None)
        \/ create_lead(c, token, PlainLead)

ResumeSessions(c) ==
    \/ update_user_update_one(c)
    \/ update_user_log_audit(c)
    \/ update_user_find_one(c)
    \/ create_lead_log_audit(c)

NextSessions ==
    \/ startup_db
    \/ Tick
    \/ \E c \in Clients : ReceiveSessions(c) \/ ResumeSessions(c)

SpecSessions == Init /\ [][NextSessions]_vars

(***************************************************************************)
(* SpecFailures: the writing operations, called by every role and with     *)
(* credentials that resolve no user, on known and unknown ids and with a   *)
(* new and an existing email.                                              *)
(***************************************************************************)
ReceiveFailures(c) ==
    \/ \E token \in Credentials : create_lead(c, token, PlainLead)
    \/ \E token \in LiveCredentials :
        \/ \E lead_id \in LeadIds : update_lead(c, token, lead_id, [status |-> "Matriculado"])
        \/ \E user_data \in UserDatas : create_user(c, token, user_data)
        \/ \E user_id \in UserIds : update_user(c, token, user_id, [nome |-> "Renomeado"])
        \/ create_course(c, token, PlainCourse)
        \/ create_lead_status(c, token, PlainStatus)
        \/ backup_system(c, token)

ResumeFailures(c) ==
    \/ create_lead_log_audit(c)
    \/ update_lead_update_one(c)
    \/ update_lead_log_audit(c)
    \/ update_lead_find_one(c)
    \/ create_user_insert_one(c)
    \/ create_user_log_audit(c)
    \/ update_user_update_one(c)
    \/ update_user_log_audit(c)
    \/ update_user_find_one(c)
    \/ create_course_log_audit(c)
    \/ create_lead_status_log_audit(c)
    \/ backup_system_leads(c)
    \/ backup_system_courses(c)
    \/ backup_system_statuses(c)
    \/ backup_system_log_audit(c)

NextFailures ==
    \/ startup_db
    \/ \E c \in Clients : ReceiveFailures(c) \/ ResumeFailures(c)

SpecFailures == Init /\ [][NextFailures]_vars

(***************************************************************************)
(* Properties.  `last` is the request that completed last; a step that     *)
(* receives a request and answers it at once leaves req unchanged.         *)
(***************************************************************************)
Completed == last.op # "none"

\* this step receives a request of operation op and answers it at once
AnsweredAtOnce(op) == nreq' = nreq + 1 /\ req' = req /\ last'.op = op

PublicOps == {"login", "get_courses", "get_lead_status"}

Roles == {"vendedor", "coordenador", "administrador"}

\* the table of section 4.3 of the specification: operation -> allowed roles
AccessTable(op) ==
    CASE op \in {"create_lead", "get_my_leads", "get_leads_stats"} -> {"vendedor"}
      [] op \in {"get_all_leads", "get_dashboard", "export_leads", "backup_system",
                 "update_lead"} -> {"coordenador", "administrador"}
      [] op \in {"get_users", "create_user", "update_user", "create_course",
                 "create_lead_status", "get_audit_logs"} -> {"administrador"}
      [] OTHER -> Roles

\* the same table with backup in the administrator-only row
AccessTableBackupAdmin(op) ==
    IF op = "backup_system" THEN {"administrador"} ELSE AccessTable(op)

\* the completed request answers as the table says: refused with 403 exactly when
\* the caller's role is not in the row of the operation; a public operation runs
\* without credential and is never refused for a role
Follows(Table(_)) ==
    Completed =>
        /\ last.op \in PublicOps =>
              /\ last.token = NoCredentials
              /\ last.cu = NoUser
              /\ last.resp.status = 403 =>
                    last.op = "login" /\ last.resp.detail = "Usuario desativado"
        /\ (last.op \notin PublicOps /\ last.cu # NoUser) =>
              /\ last.cu.tipo \in Roles
              /\ last.resp.status = 403 <=> last.cu.tipo \notin Table(last.op)

\* C1 (as the specification states it): for every role and every operation, the
\* handler lets the request through exactly when the role is listed for the operation
\* in the table of section 4.3, where backup is open to coordinators and
\* administrators, and otherwise answers 403.
C1_AccessTable == Follows(AccessTable)

\* C1 (amended): for every role and every operation, the handler lets the request
\* through exactly when the role is listed for the operation in the table of section
\* 4.3 with backup moved to the administrator-only row, and otherwise answers 403;
\* login, list courses and list lead-status run with no credential.
C1_AccessTableBackupAdmin == Follows(AccessTableBackupAdmin)

\* a seller was refused an operation of coordinators and administrators
C1_SellerRefused ==
    /\ Completed
    /\ last.op = "update_lead"
    /\ last.cu # NoUser
    /\ last.cu.tipo = "vendedor"
    /\ last.resp.status = 403

\* C2 (as the specification states it): backup_system is allowed for a coordinator
\* and for an administrator, and refused with 403 only for a seller.
C2_BackupForManagers ==
    (Completed /\ last.op = "backup_system" /\ last.cu # NoUser) =>
        (last.resp.status = 403 <=> last.cu.tipo = "vendedor")

\* C2 (amended): backup_system is allowed only for an administrator; it is refused
\* with 403 for a coordinator as it is for a seller.
C2_BackupForAdministrator ==
    (Completed /\ last.op = "backup_system" /\ last.cu # NoUser) =>
        (last.resp.status = 403 <=> last.cu.tipo # "administrador")

\* a coordinator asked for a backup and was refused
C2_CoordinatorRefused ==
    /\ Completed
    /\ last.op = "backup_system"
    /\ last.cu # NoUser
    /\ last.cu.tipo = "coordenador"
    /\ last.resp = HTTPException(403, "Acesso negado")

\* why a credential resolves to no user
ReasonUnresolved(token, usrs, t) ==
    IF token.sig # "ok" THEN "Token invalido"
    ELSE IF token.claims.exp <= t THEN "Token expirado"
    ELSE IF "sub" \notin DOMAIN token.claims THEN "Token invalido"
    ELSE "Usuario nao encontrado"

\* C3: every way a bearer token can fail to resolve to a user (expired, malformed or
\* badly signed, without sub, sub of no stored user) ends in a 401 with the matching
\* reason, never in a 403, an internal error or a returned user.
C3_UnresolvedIs401 ==
    (Completed /\ last.op \notin PublicOps /\ last.cu = NoUser) =>
        last.resp = HTTPException(401, ReasonUnresolved(last.token, users, now))

\* C4: a login with an email of no user and a login with an existing email and a wrong
\* password give the same status and the same message, whatever the ativo flag of the
\* account; only the correct password of a deactivated account gives the distinct
\* "Usuario desativado" failure; in all three cases no token is issued.
C4_LoginUniform ==
    [][AnsweredAtOnce("login") =>
        LET a == last'.arg
            i == FirstIndex(users, "email", a.email)
            correct == i # 0 /\ users[i].senha_hash = hash_password(a.senha)
            disabled == i # 0 /\ ~Get(users[i], "ativo", TRUE)
        IN  /\ ~correct => last'.resp = HTTPException(401, "Email ou senha incorretos")
            /\ (correct /\ disabled) => last'.resp = HTTPException(403, "Usuario desativado")
            /\ (~correct \/ disabled) => last'.resp.status # 200
    ]_vars

\* the fields of a lead fixed at its creation
LeadFixedFields == {"id", "vendedor_id", "vendedor_nome", "criado_em"}

\* this step is the insert of the create_lead request of client c
create_lead_inserts(c) ==
    /\ req[c] = Idle
    /\ req'[c].pc = "audit"
    /\ req'[c].op = "create_lead"

C6_UniqueEmail ==
    \A i, j \in DOMAIN users : i # j => users[i].email # users[j].email

\* this step is the update_one of the update_lead request of client c
update_lead_writes(c) ==
    /\ req[c].pc = "update"
    /\ req[c].op = "update_lead"
    /\ req'[c].pc = "audit"

\* the fields the payload supplies with a non-null value
Supplied(body) ==
    {k \in {"status", "nome_completo", "telefone", "curso"} \cap DOMAIN body : body[k] # None}

\* C7: update_lead on an existing lead changes exactly the fields among status,
\* nome_completo, telefone, curso that the payload supplies with a non-null value, sets
\* atualizado_em, and leaves every other field of that lead and every other lead
\* unchanged; update_lead on an id of no lead fails with 404 and changes neither the
\* leads nor the audit log.
C7_UpdateFrame ==
    [][/\ \A c \in Clients : update_lead_writes(c) =>
            LET body == req[c].arg.body
                i == FirstIndex(leads, "id", req[c].arg.lead_id)
            IN  /\ i # 0
                /\ Len(leads') = Len(leads)
                /\ \A j \in DOMAIN leads : j # i => leads'[j] = leads[j]
                /\ DOMAIN leads'[i] = DOMAIN leads[i]
                /\ \A k \in Supplied(body) : leads'[i][k] = body[k]
                /\ leads'[i].atualizado_em = isoformat(now)
                /\ \A k \in DOMAIN leads[i] \ (Supplied(body) \cup {"atualizado_em"}) :
                        leads'[i][k] = leads[i][k]
       /\ (leads' # leads /\ Len(leads') = Len(leads)) =>
            \E c \in Clients : update_lead_writes(c)
       /\ AnsweredAtOnce("update_lead") =>
            /\ last'.resp.status = 404 <=> FirstIndex(leads, "id", last'.arg.lead_id) = 0
            /\ leads' = leads
            /\ audit_logs' = audit_logs
    ]_vars

\* an update that supplies an empty telefone, a curso and a null status is in the
\* store: telefone and curso are the supplied ones, status is the old one
C7_PartialUpdateWritten ==
    \E c \in Clients :
        /\ req[c].pc = "audit"
        /\ req[c].op = "update_lead"
        /\ req[c].arg.body = [telefone |-> "", curso |-> "Direito", status |-> None]
        /\ leads[1].telefone = ""
        /\ leads[1].curso = "Direito"
        /\ leads[1].status = sample_leads_data[1][4]
        /\ leads[1].atualizado_em # isoformat(StartClock - Days(sample_leads_data[1][6]))

\* the operations that write a record, and all that write an audit entry
MutatingOps ==
    {"create_lead", "update_lead", "create_user", "update_user", "create_course",
     "create_lead_status"}

AuditedOps == MutatingOps \cup {"backup_system"}

\* the audit entry a successful request must have written: acao, entidade, entidade_id
ExpectedEntry(r) ==
    CASE r.op = "create_lead" -> <<"CREATE", "lead", r.resp.body.id>>
      [] r.op = "update_lead" -> <<"UPDATE", "lead", r.arg.lead_id>>
      [] r.op = "create_user" -> <<"CREATE", "user", r.resp.body.id>>
      [] r.op = "update_user" -> <<"UPDATE", "user", r.arg.user_id>>
      [] r.op = "create_course" -> <<"CREATE", "course", r.resp.body.id>>
      [] r.op = "create_lead_status" -> <<"CREATE", "lead_status", r.resp.body.id>>
      [] r.op = "backup_system" -> <<"BACKUP", "system", "full">>

\* the collection an audit entry of entidade e refers to
CollectionOf(e) ==
    CASE e = "lead" -> leads
      [] e = "user" -> users
      [] e = "course" -> courses
      [] e = "lead_status" -> lead_status

\* C8: every successful create_lead, update_lead, create_user, update_user,
\* create_course and create_lead_status appends exactly one audit entry whose acao,
\* entidade and entidade_id match the mutation, every successful backup_system appends
\* exactly one BACKUP entry, and an entry is written after the mutation is in the store,
\* never before it.
C8_OneEntryAfterWrite ==
    /\ (Completed /\ last.op \in AuditedOps /\ last.resp.status = 200) =>
        /\ Cardinality(last.logs) = 1
        /\ Cardinality({i \in DOMAIN audit_logs : audit_logs[i].id \in last.logs}) = 1
        /\ \A i \in DOMAIN audit_logs : audit_logs[i].id \in last.logs =>
              /\ <<audit_logs[i].acao, audit_logs[i].entidade, audit_logs[i].entidade_id>>
                    = ExpectedEntry(last)
              /\ audit_logs[i].usuario_id = last.cu.id
    /\ (Completed /\ last.op \in MutatingOps /\ last.logs # {}) => last.wrote
    /\ \A c \in Clients :
          (req[c] # Idle /\ req[c].op \in MutatingOps /\ req[c].logs # {}) => req[c].wrote
    /\ \A i \in DOMAIN audit_logs :
          audit_logs[i].acao = "CREATE" =>
              FirstIndex(CollectionOf(audit_logs[i].entidade), "id",
                         audit_logs[i].entidade_id) # 0

\* a successful create_lead has completed
C8_LeadCreatedAndLogged ==
    /\ Completed
    /\ last.op = "create_lead"
    /\ last.resp.status = 200
    /\ last.wrote
    /\ FirstIndex(audit_logs, "entidade_id", last.resp.body.id) # 0

\* this step is the audit-log write of a mutating operation of client c, and it fails
audit_write_fails(c) ==
    /\ req[c].pc = "audit"
    /\ req[c].op \in MutatingOps
    /\ faults' = faults + 1

\* C9: when the audit-log write of a mutating operation fails, the mutation is neither
\* rolled back nor aborted: the written record stays in the store and the operation
\* still returns its success result.
C9_AuditFailureTolerated ==
    [][\A c \in Clients : audit_write_fails(c) =>
        /\ UNCHANGED <<users, leads, courses, lead_status>>
        /\ req'[c] = Idle => last'.resp.status = 200
    ]_vars

\* the body of a completed request holds a senha_hash
BodyHasHash(r) ==
    /\ r.resp.status = 200
    /\ CASE r.op = "login" ->
                "senha_hash" \in DOMAIN r.resp.body \cup DOMAIN r.resp.body.user
         [] r.op \in {"get_me", "create_user", "update_user"} ->
                "senha_hash" \in DOMAIN r.resp.body
         [] r.op = "get_users" ->
                \E i \in DOMAIN r.resp.body : "senha_hash" \in DOMAIN r.resp.body[i]
         [] r.op = "backup_system" ->
                \E i \in DOMAIN r.resp.body.Usuarios :
                    "senha_hash" \in DOMAIN r.resp.body.Usuarios[i]
         [] OTHER -> FALSE

\* C10: no response of login, get_me, get_users, create_user, update_user (also when
\* the update map carries a senha or senha_hash key) or backup_system (the Users
\* sheet) contains a user's senha_hash.
C10_NoHashInResponse == Completed => ~BodyHasHash(last)

\* an update whose map carries senha_hash was answered with the updated user
C10_HashUpdateAnswered ==
    /\ Completed
    /\ last.op = "update_user"
    /\ last.resp.status = 200
    /\ "senha_hash" \in DOMAIN last.arg.updates
    /\ users[FirstIndex(users, "id", last.arg.user_id)].senha_hash = last.arg.updates.senha_hash

\* C11: when two coordinators update the same lead concurrently, the outcome is
\* last-writer-wins per field: every applied update sets each of status, nome_completo,
\* telefone, curso it supplies and leaves the others as the update applied before left
\* them (a field changes only by an update that supplies it), so the final value of a
\* field is the one of the last applied update that supplied it; both updates succeed
\* and no conflict is reported.
C11_LastWriterWins ==
    [][/\ \A c \in Clients : update_lead_writes(c) =>
            LET body == req[c].arg.body
                i == FirstIndex(leads, "id", req[c].arg.lead_id)
            IN  /\ i # 0
                /\ \A k \in {"status", "nome_completo", "telefone", "curso"} :
                      leads'[i][k] = IF k \in Supplied(body) THEN body[k] ELSE leads[i][k]
       /\ \A i \in DOMAIN leads : \A k \in {"status", "nome_completo", "telefone", "curso"} :
            leads'[i][k] # leads[i][k] =>
                \E c \in Clients :
                    /\ update_lead_writes(c)
                    /\ req[c].arg.lead_id = leads[i].id
                    /\ k \in Supplied(req[c].arg.body)
       /\ \A c \in Clients :
            (req[c].pc # "idle" /\ req'[c].pc = "idle" /\ req[c].op = "update_lead") =>
                /\ last'.resp.status \notin {404, 409}
                /\ last'.logs # {} => last'.resp.status = 200
    ]_vars

\* two updates of the first lead are in flight and both are in the store: status is
\* the one of the second patch, telefone the one of the first
C11_BothApplied ==
    /\ \A c \in Clients : req[c].pc \in {"audit", "find"} /\ req[c].wrote
    /\ req["c1"].arg.lead_id = req["c2"].arg.lead_id
    /\ leads[1].status = "Em negociacao"
    /\ leads[1].telefone = "(84) 92222-2222"
    /\ leads[1].curso = "Direito"

\* C12: for every lead, atualizado_em never decreases: each update_lead leaves it at a
\* value greater than or equal to the one it had before, for any sequence of updates
\* and any interleaving of concurrent updates of the same lead, the clock being
\* non-decreasing.
C12_UpdatedAtMonotone ==
    [][\A i \in DOMAIN leads :
        /\ i \in DOMAIN leads'
        /\ ~IsoLess(leads'[i].atualizado_em, leads[i].atualizado_em)
    ]_vars

\* lead d equals every filter of a (curso, status, vendedor_id) whose value is not in omitted
LeadMatches(d, a, omitted) ==
    \A k \in {"curso", "status", "vendedor_id"} : a[k] \in omitted \/ d[k] = a[k]

\* the positions in the store of the leads a selects
Selected(a, omitted) == {i \in DOMAIN leads : LeadMatches(leads[i], a, omitted)}

\* this step answers a request of operation op that passed authentication and the role check
Served(op) == AnsweredAtOnce(op) /\ last'.resp.status \notin {401, 403}

\* C13: export_leads with a format other than csv or excel fails with 400 for every
\* filter combination and every store content, including a store in which no lead
\* matches the filters; with format csv or excel and no matching lead it fails with 404.
C13_ExportErrors ==
    [][Served("export_leads") =>
        LET a == last'.arg
        IN  /\ a.format \notin {"csv", "excel"} => last'.resp.status = 400
            /\ (a.format \in {"csv", "excel"} /\ Selected(a, {None, ""}) = {})
                    => last'.resp.status = 404
    ]_vars

Sellers(usrs) == {usrs[i].id : i \in {j \in DOMAIN usrs : usrs[j].tipo = "vendedor"}}

\* this step is a run of startup_db: no request is in flight, none is received, and
\* the clock stands still
startup_db_runs ==
    /\ \A c \in Clients : req[c].pc = "idle" /\ req'[c].pc = "idle"
    /\ nreq' = nreq
    /\ now' = now

\* C14: startup seeding is idempotent per collection: startup_db inserts into users,
\* courses, lead_status or leads only when that collection is empty and never modifies
\* or removes an existing record; after it, every collection it would seed is
\* non-empty (leads: unless no seller exists), so a second startup_db right after
\* leaves all four unchanged; sample leads are inserted only when a user of role seller
\* exists, and all of them are attached to that one seller.
C14_SeedIdempotent ==
    [][startup_db_runs =>
        /\ Len(users) # 0 => users' = users
        /\ Len(courses) # 0 => courses' = courses
        /\ Len(lead_status) # 0 => lead_status' = lead_status
        /\ Len(leads) # 0 => leads' = leads
        /\ Len(users') # 0 /\ Len(courses') # 0 /\ Len(lead_status') # 0
        /\ Len(leads') = 0 <=> (Len(leads) = 0 /\ Sellers(users') = {})
        /\ (Len(leads) = 0 /\ Len(leads') # 0) =>
                \E v \in Sellers(users') : \A i \in DOMAIN leads' : leads'[i].vendedor_id = v
        /\ (started /\ nreq = 0) => UNCHANGED <<users, courses, lead_status, leads>>
    ]_vars

\* the server started on a database with an administrator, no seller, an old course,
\* and no status and no lead: the user and the course are kept, the statuses are
\* seeded, and no sample lead is inserted
C14_SeededAroundKept ==
    /\ started
    /\ Len(users) = 1 /\ users[1].email = "chefe@lead.com.br"
    /\ Len(courses) = 1 /\ courses[1].nome = "Curso Antigo"
    /\ Len(lead_status) = Len(default_statuses_data)
    /\ Len(leads) = 0

\* the body of the response holds the stored leads at the positions I, each once,
\* with both dates parsed
ListsExactly(body, I) ==
    /\ Len(body) = Cardinality(I)
    /\ \A i \in I : \E j \in DOMAIN body : body[j] = LeadOut(leads[i])
    /\ \A j \in DOMAIN body : \E i \in I : body[j] = LeadOut(leads[i])

\* C15: get_my_leads called by a seller succeeds and returns exactly the stored leads
\* whose vendedor_id equals the caller's id (up to the cap of 1000): no lead owned by
\* another seller, and every lead of the caller, whatever leads other sellers created.
C15_OwnLeadsOnly ==
    [][Served("get_my_leads") =>
        LET own == {i \in DOMAIN leads : leads[i].vendedor_id = last'.cu.id}
        IN  /\ last'.cu.tipo = "vendedor"
            /\ last'.resp.status = 200
            /\ Cardinality(own) <= 1000 => ListsExactly(last'.resp.body, own)
            /\ Len(last'.resp.body) <= 1000
    ]_vars

\* a seller listed its leads while the store held leads of another seller as well
C15_OtherSellersLeadsStored ==
    /\ last.op = "get_my_leads" /\ last.resp.status = 200
    /\ Len(last.resp.body) > 0
    /\ \A j \in DOMAIN last.resp.body : last.resp.body[j].vendedor_id = last.cu.id
    /\ \E i \in DOMAIN leads : leads[i].vendedor_id # last.cu.id
    /\ \E i \in DOMAIN leads : leads[i].vendedor_id = last.cu.id

\* the rows of an export are the stored leads at the positions I, each once
ExportsExactly(rows, I) ==
    /\ Len(rows) = Cardinality(I)
    /\ \A i \in I : \E j \in DOMAIN rows : rows[j] = leads[i]
    /\ \A j \in DOMAIN rows : \E i \in I : rows[j] = leads[i]

\* get_all_leads and export_leads select the leads that equal every filter whose value
\* is not in omitted
SelectsBy(omitted) ==
    /\ Served("get_all_leads") =>
        /\ last'.resp.status = 200
        /\ Cardinality(Selected(last'.arg, omitted)) <= 5000
                => ListsExactly(last'.resp.body, Selected(last'.arg, omitted))
    /\ (Served("export_leads") /\ last'.resp.status = 200) =>
        ExportsExactly(last'.resp.body.rows, Selected(last'.arg, omitted))

\* C16 (as stated): get_all_leads returns exactly the stored leads that equal every
\* supplied filter among curso, status, vendedor_id (filters are ANDed, an omitted
\* filter constrains nothing, up to the cap of 5000), and export_leads selects the same
\* set of leads for the same filters.
C16_SuppliedFilters == [][SelectsBy({None})]_vars

\* C16 (amended): the same, where a filter supplied as the empty string constrains
\* nothing either.
C16_NonEmptyFilters == [][SelectsBy({None, ""})]_vars

\* the three filters were supplied together and selected one lead of the created
\* seller, whose other lead of the same course has another status
C16_ThreeFiltersAnded ==
    /\ last.op = "get_all_leads" /\ last.resp.status = 200
    /\ last.arg.curso = "Direito" /\ last.arg.status = "Matriculado"
    /\ last.arg.vendedor_id # None
    /\ Len(last.resp.body) = 1
    /\ \E i \in DOMAIN leads :
        /\ leads[i].curso = "Direito" /\ leads[i].vendedor_id = last.arg.vendedor_id
        /\ leads[i].status # "Matriculado"
    /\ \E i \in DOMAIN leads :
        leads[i].curso = "Direito" /\ leads[i].vendedor_id # last.arg.vendedor_id

\* the months (first 7 characters of criado_em) in which the leads at positions I were created
MonthsOf(I) == {MonthOf(leads[i]) : i \in I}

\* the n greatest months of M
MostRecent(M, n) == {m \in M : Cardinality({k \in M : k > m}) < n}

\* this step is the aggregation of a get_leads_stats request of client c
stats_aggregates(c) ==
    req[c].pc = "aggregate" /\ req[c].op = "get_leads_stats" /\ req'[c].pc = "idle"

\* C17: get_leads_stats for a seller returns total equal to the number of that
\* seller's leads (when it was counted) and monthly buckets keyed by the first 7
\* characters of criado_em, each with the count of that seller's leads in that month,
\* sorted by period descending and limited to the 12 most recent periods; leads of
\* other sellers contribute to neither.
C17_OwnStats ==
    [][/\ \A c \in Clients :
            (req[c].pc = "idle" /\ req'[c].pc = "aggregate") =>
                req'[c].loc.total
                    = Cardinality({i \in DOMAIN leads : leads[i].vendedor_id = req'[c].cu.id})
       /\ \A c \in Clients : stats_aggregates(c) =>
            LET own == {i \in DOMAIN leads : leads[i].vendedor_id = req[c].cu.id}
                monthly == last'.resp.body.monthly
            IN  /\ last'.resp.status = 200
                /\ last'.resp.body.total = req[c].loc.total
                /\ {monthly[j].id_ : j \in DOMAIN monthly} = MostRecent(MonthsOf(own), 12)
                /\ \A j \in DOMAIN monthly :
                    monthly[j].count
                        = Cardinality({i \in own : MonthOf(leads[i]) = monthly[j].id_})
                /\ \A j, k \in DOMAIN monthly : j < k => monthly[j].id_ > monthly[k].id_
    ]_vars

\* the seeded seller asked for its statistics with leads in more than 12 months, a
\* month with more than one lead, and leads of another seller in the store
C17_TwelveOfFourteenMonths ==
    /\ last.op = "get_leads_stats" /\ last.resp.status = 200
    /\ Len(last.resp.body.monthly) = 12
    /\ Cardinality(MonthsOf({i \in DOMAIN leads : leads[i].vendedor_id = last.cu.id})) > 12
    /\ \E j \in DOMAIN last.resp.body.monthly : last.resp.body.monthly[j].count > 1

\* a seller asked for its statistics while another seller owns leads of the same month
C17_OtherSellerSameMonth ==
    /\ last.op = "get_leads_stats" /\ last.resp.status = 200
    /\ last.resp.body.total > 0
    /\ \E i, j \in DOMAIN leads :
        /\ leads[i].vendedor_id = last.cu.id /\ leads[j].vendedor_id # last.cu.id
        /\ MonthOf(leads[i]) = MonthOf(leads[j])

\* this step is the vendedor_ranking aggregation of a get_dashboard request of client c
dashboard_ranks(c) ==
    req[c].pc = "vendedor" /\ req[c].op = "get_dashboard" /\ req'[c].pc = "monthly"

Owners == {leads[i].vendedor_id : i \in DOMAIN leads}

\* every entry of the ranking rk counts the leads of its owner, and rk is sorted
RankingCounts(rk) ==
    /\ \A j \in DOMAIN rk :
        /\ rk[j].total_leads
            = Cardinality({i \in DOMAIN leads : leads[i].vendedor_id = rk[j].id_})
        /\ rk[j].matriculados
            = Cardinality({i \in DOMAIN leads : /\ leads[i].vendedor_id = rk[j].id_
                                                /\ leads[i].status = "Matriculado"})
        /\ rk[j].matriculados <= rk[j].total_leads
    /\ \A j, k \in DOMAIN rk : j < k => rk[j].total_leads >= rk[k].total_leads

\* C18: the dashboard's vendedor_ranking holds one entry for every distinct vendedor_id
\* present among the stored leads, each entry's total_leads is the number of leads of
\* that owner and its matriculados the number of those whose status is "Matriculado"
\* (so matriculados <= total_leads), and the entries are sorted by total_leads descending.
C18_RankingOfAllOwners ==
    [][\A c \in Clients : dashboard_ranks(c) =>
        LET rk == req'[c].loc.vendedor_ranking
        IN  /\ {rk[j].id_ : j \in DOMAIN rk} = Owners
            /\ Len(rk) = Cardinality(Owners)
            /\ RankingCounts(rk)
    ]_vars

\* this step is the curso_distribution aggregation of a get_dashboard request of client c
dashboard_courses(c) ==
    req[c].pc = "curso" /\ req[c].op = "get_dashboard" /\ req'[c].pc = "vendedor"

LeadsOfCourse(x) == Cardinality({i \in DOMAIN leads : leads[i].curso = x})

StoredCourses == {leads[i].curso : i \in DOMAIN leads}

\* C19: the dashboard's curso_distribution has at most 5 entries for any store content,
\* is sorted by count descending, and its entries are the courses with the highest lead
\* counts (each with its number of leads): no course left out has strictly more leads
\* than a course included.
C19_TopFiveCourses ==
    [][\A c \in Clients : dashboard_courses(c) =>
        LET cd == req'[c].loc.curso_distribution
            included == {cd[j].id_ : j \in DOMAIN cd}
        IN  /\ Len(cd) <= 5
            /\ Len(cd) = Cardinality(included)
            /\ included \subseteq StoredCourses
            /\ Cardinality(StoredCourses) >= 5 => Len(cd) = 5
            /\ Cardinality(StoredCourses) < 5 => included = StoredCourses
            /\ \A j \in DOMAIN cd : cd[j].count = LeadsOfCourse(cd[j].id_)
            /\ \A j, k \in DOMAIN cd : j < k => cd[j].count >= cd[k].count
            /\ \A x \in StoredCourses \ included :
                \A j \in DOMAIN cd : LeadsOfCourse(x) <= cd[j].count
    ]_vars

\* a dashboard was answered over more than 5 courses, and the course with the most
\* leads, which the first five leads of the store do not have, comes first
C19_LateCourseFirst ==
    /\ last.op = "get_dashboard" /\ last.resp.status = 200
    /\ Cardinality(StoredCourses) > 5
    /\ Len(last.resp.body.curso_distribution) = 5
    /\ last.resp.body.curso_distribution[1].count > 1
    /\ \A i \in 1..5 : leads[i].curso # last.resp.body.curso_distribution[1].id_
    /\ last.resp.body.curso_distribution[1].count
            > last.resp.body.curso_distribution[5].count

\* this step receives a request and answers it without a further step
ReceivedAndAnswered == \A c \in Clients : req'[c].pc = req[c].pc

\* the request this step receives
Received ==
    IF ReceivedAndAnswered THEN last'
    ELSE req'[CHOOSE c \in Clients : req'[c].pc # req[c].pc]

\* C20: get_current_user does not consult ativo: once an administrator has set
\* ativo = false on a user, an unexpired token of that user is still resolved to the
\* user, and every operation the table allows for the user's role is still let through
\* (the ones answered at once with 200) until the token expires, when it is refused
\* with 401 as any expired token; a login of that user with the right password is
\* refused with 403.
C20_DeactivationBlocksLoginOnly ==
    [][nreq' = nreq + 1 =>
        LET r == Received
        IN  /\ r.op = "login" =>
                \A i \in DOMAIN users :
                    (/\ users[i].email = r.arg.email
                     /\ verify_password(r.arg.senha, users[i].senha_hash)
                     /\ ~users[i].ativo)
                        => last'.resp = HTTPException(403, "Usuario desativado")
            /\ (/\ r.op \notin PublicOps
                /\ r.token.sig = "ok"
                /\ "sub" \in DOMAIN r.token.claims
                /\ r.token.claims.exp > now) =>
                \A i \in DOMAIN users :
                    (users[i].id = r.token.claims.sub /\ ~users[i].ativo) =>
                        /\ r.cu = users[i]
                        /\ users[i].tipo \in AccessTableBackupAdmin(r.op) =>
                                (ReceivedAndAnswered => last'.resp.status = 200)
                        /\ users[i].tipo \notin AccessTableBackupAdmin(r.op) =>
                                (ReceivedAndAnswered /\ last'.resp.status = 403)
            /\ (/\ r.op \notin PublicOps
                /\ r.token.sig = "ok"
                /\ r.token.claims.exp <= now) =>
                    (ReceivedAndAnswered /\ last'.resp = HTTPException(401, "Token expirado"))
    ]_vars

\* the seeded seller, deactivated, listed its leads with a token that has not expired
C20_DeactivatedSellerListed ==
    /\ last.op = "get_my_leads"
    /\ last.resp.status = 200
    /\ last.cu.tipo = "vendedor"
    /\ ~last.cu.ativo
    /\ \E i \in DOMAIN users : users[i].id = last.cu.id /\ ~users[i].ativo
    /\ Len(audit_logs) > 0

\* this step ends a request: one it receives and answers at once, or one in flight
EndsRequest ==
    \/ nreq' = nreq + 1 /\ ReceivedAndAnswered
    \/ \E c \in Clients : req[c].pc # "idle" /\ req'[c].pc = "idle"

\* the statuses of Unauthenticated, Forbidden, NotFound and Conflict (an existing
\* email is answered with 400)
RefusalStatuses == {400, 401, 403, 404, 409}

\* C21: an operation that fails with Unauthenticated, Forbidden, NotFound or Conflict
\* (a role not allowed for a writing operation, update_lead or update_user on an
\* unknown id, create_user with an existing email) leaves users, leads, courses,
\* lead_status and audit_logs unchanged: the step that answers it changes none of
\* them, and the request has written no document and no audit entry before.
C21_RefusalWritesNothing ==
    [][(EndsRequest /\ last'.resp.status \in RefusalStatuses) =>
        /\ UNCHANGED <<users, leads, courses, lead_status, audit_logs>>
        /\ ~last'.wrote
        /\ last'.logs = {}
    ]_vars

\* the administrator asked to create a user with the email of a seeded user and was
\* refused: the users and the audit log are as the startup left them
C21_ExistingEmailRefused ==
    /\ last.op = "create_user"
    /\ last.resp.status = 400
    /\ last.arg.email = users[1].email
    /\ Len(users) = Len(default_users_data)
    /\ Len(audit_logs) = 0

RECURSIVE SumOf(_, _)
\* the sum of field k over the entries of seq
SumOf(seq, k) == IF Len(seq) = 0 THEN 0 ELSE seq[1][k] + SumOf(Tail(seq), k)

\* C22: every get_dashboard response is internally consistent: total_leads equals the
\* sum of the counts in status_distribution and the sum of total_leads over
\* vendedor_ranking (below the caps of 100 groups), for any interleaving of the
\* dashboard's separate reads with concurrent create_lead and update_lead requests.
C22_DashboardConsistent ==
    (last.op = "get_dashboard" /\ last.resp.status = 200) =>
        /\ last.resp.body.total_leads = SumOf(last.resp.body.status_distribution, "count")
        /\ last.resp.body.total_leads = SumOf(last.resp.body.vendedor_ranking, "total_leads")

====
